---- MODULE Spec2Model ----
(***************************************************************************)
(* tedium: the run orchestrator (_main / main), the pass runner (cleanup), *)
(* the change governor (pushIsAllowed), the review latch                   *)
(* (ElementRepo.needsReview) and the push routing (pushChanges).           *)
(*                                                                         *)
(* Repositories are the numbers 1..NumRepos in the order of                *)
(* elements.sort(by dir); passes are 1..NumPasses in registration order.   *)
(***************************************************************************)
EXTENDS Integers, Sequences, FiniteSets, TLC

\* ---- bounds of the model ------------------------------------------------
NumRepos == 3

NumPasses == 2

MaxChangesBound == 2

Repos == 1..NumRepos

Passes == 1..NumPasses

\* ---- program constants --------------------------------------------------
\* const branchName = 'auto-cleanup'
branchName == "auto-cleanup"

\* the target branch of a direct push and the base of a pull request
targetBranch == "master"

\* cli option max_changes: defaultValue
DefaultMaxChanges == 0

\* enum PushStatus
PushStatus == {"unpushed", "succeeded", "failed", "denied"}

VARIABLES
  max_changes,     \* opts.max_changes
  excluded,        \* the elements whose dir is in `excludes`
  runsByDefault,   \* registry: pass -> its runsByDefault flag
  blacklist,       \* config.passes: pass -> the blacklisted elements
  forceReview,     \* opts.forceReview
  branchToFix,     \* opts.branchToFix
  prBranchName,    \* opts.prBranchName
  mainpc,          \* where main/_main is
  loaded,          \* whether _main has filled `elements`
  idx,             \* position of the for-loop over elements
  pc,              \* per element: where its try-block is
  step,            \* per element: position of cleanup's loop over getPasses()
  dirty,           \* ElementRepo.dirty
  needsReview,     \* ElementRepo._needsReview
  pushStatus,      \* ElementRepo.pushStatus
  commits,         \* per element: commits created on its local branch
  branched,        \* per element: the local branch auto-cleanup exists
  elementsPushed,  \* module counter
  pushesDenied,    \* module counter
  remoteBranchName,\* per element: pushChanges' local variable
  pushedTo,        \* per element: the <<local, remote>> branches pushed
  pullRequest,     \* per element: <<head, base>> of the PR created, or <<>>
  prEdited,        \* per element: the PR was assigned and labelled
  thrown,          \* per element: what its try-block threw, or "none"
  err,             \* the error main caught
  report,          \* what reportOnChangesMade printed
  summary,         \* the one-line summary _main printed
  exitCode,        \* process exit status, -1 while running
  stderr,          \* the error main's catch printed with console.error
  reportCalls,     \* history: calls of reportOnChangesMade
  orWrites,        \* history: OR of every value written to needsReview
  gateCalls,       \* history: pushIsAllowed calls made for the element
  passRuns,        \* history: pass transforms invoked on the element
  invoked,         \* history: per element, the passes invoked on it, in order
  running,         \* history: per element, the passes whose transform was
                   \* called and has not yet resolved or rejected
  paced            \* history: per element, createPullRequest awaited its
                   \* rateLimit delay

\* ---- the pass registry (cleanup-pass.ts) and a caller of cleanup ----------
VARIABLES
  arrays,          \* the array objects: arrays[1] is `passes`, arrays[2] the
                   \* array a caller got from getPasses()
  list,            \* the array the caller holds: 0 none, else its place in arrays
  registered,      \* history: the descriptors given to register, in call order
  op,              \* history: the last registry operation
  phase,           \* "load" (modules register), "parsed" (cli read), "failed"
  opts_pass,       \* opts.pass: the --pass names the cli accepted
  config,          \* config.passes, as read from the configuration file
  call,            \* the arguments of the last cleanup call
  ran              \* the places in getPasses() whose pass that call awaited

regVars == << arrays, list, registered, op >>

runnerVars == << phase, opts_pass, config, call, ran >>

\* ---- rateLimit (tedium.ts) -------------------------------------------------
VARIABLES
  promises,        \* the promises rateLimit returned, in call order
  previousPromise, \* the closure variable: 0 is Promise.resolve(null)
  now              \* the clock setTimeout reads

rateVars == << promises, previousPromise, now >>

\* let previousPromise = Promise.resolve(null), and no call made
InitRateLimit ==
  /\ promises = << >>
  /\ previousPromise = 0
  /\ now = 0

\* ---- a cleanup pass run on the checkout of one element ---------------------
VARIABLES
  tree,            \* the files of the element's directory the passes read
  log              \* history: the runs made on it, in order

passVars == << tree, log >>

\* no bower.json, .travis.yml, package.json nor issue template in the checkout
NoFiles ==
  [bower |-> FALSE, main |-> "absent", ignore |-> "absent", wcjs |-> "nodev",
   polymer |-> "nodeps", elemFile |-> FALSE, template |-> "absent",
   package |-> "absent", travis |-> [state |-> "absent", cipher |-> 0]]

\* no pass has been run on a checkout
InitTree ==
  /\ tree = NoFiles
  /\ log = << >>

\* ---- getRepos: the raw results and the loop that removes duplicates ---------
VARIABLES
  repos,           \* the raw results, in the order they were pushed
  reposPos,        \* position of the for-of loop over repos
  repoIds,         \* the Set of names seen
  dedupedRepos,    \* the array getRepos builds
  returned         \* getRepos has returned dedupedRepos

discVars == << repos, reposPos, repoIds, dedupedRepos, returned >>

\* getRepos not called
NoDiscovery ==
  /\ repos = << >>
  /\ reposPos = 1
  /\ repoIds = {}
  /\ dedupedRepos = << >>
  /\ returned = FALSE

libVars == << regVars, runnerVars, rateVars, passVars, discVars >>

\* the names passes register under
PassNames == {"bower", "npm"}

\* a descriptor's runsByDefault: true, false, or the property left out
Flags == {"true", "false", "undefined"}

\* interface CleanupPass, as the objects given to register
CleanupPass == [name : PassNames, runsByDefault : Flags]

\* element.dir of the two elements a caller cleans
Dirs == {"repos/x", "repos/y"}

NoCall == [made |-> FALSE, dir |-> "", explicit |-> FALSE, names |-> << >>]

\* const passes: CleanupPass[] = [] and nothing called yet
InitRegistry ==
  /\ arrays = << << >>, << >> >>
  /\ list = 0
  /\ registered = << >>
  /\ op = "none"
  /\ phase = "load"
  /\ opts_pass = << >>
  /\ config = << >>
  /\ call = NoCall
  /\ ran = << >>

vars == << max_changes, excluded, runsByDefault, blacklist, forceReview,
           branchToFix, prBranchName, mainpc, loaded,
           idx, pc, step, dirty, needsReview, pushStatus, commits, branched,
           elementsPushed, pushesDenied, remoteBranchName, pushedTo,
           pullRequest, prEdited, thrown, err, report, summary, exitCode, stderr,
           reportCalls, orWrites,
           gateCalls, passRuns, invoked, running, paced, libVars >>

NoErr == [kind |-> "none", repo |-> 0]

NoReport == [printed |-> FALSE, denied |-> {}, pushed |-> {}, failed |-> {}]

\* The inputs of a run that the model enumerates.
\* excludes: getRepos always returns Polymer/polymer first, and
\* 'repos/polymer' is in `excludes`, so at least one element is excluded.
Excludes == (SUBSET Repos) \ {{}}

\* the registry: every pass runs by default, or one pass does not
Registries ==
  {[p \in Passes |-> TRUE]} \cup {[p \in Passes |-> p # q] : q \in Passes}

\* config.passes: no blacklist, or the first pass blacklists the first element
Blacklists ==
  { [p \in Passes |-> {}], [p \in Passes |-> IF p = 1 THEN {1} ELSE {}] }

\* the options and the configuration of a run
InitOptions ==
  /\ max_changes \in 0..MaxChangesBound
  /\ excluded \in Excludes
  /\ runsByDefault \in Registries
  /\ blacklist \in Blacklists

\* cli options forceReview, branchToFix, prBranchName: defaultValue. The
\* tedium.ts without these options always works on 'master' and never forces
\* a review.
DefaultReviewOptions ==
  /\ forceReview = FALSE
  /\ branchToFix = targetBranch
  /\ prBranchName = "tedium-change"

\* the module state of tedium.ts before main() is called
InitRun ==
  /\ mainpc = "startup"
  /\ loaded = FALSE
  /\ idx = 1
  /\ pc = [r \in Repos |-> "new"]
  /\ step = [r \in Repos |-> 0]
  /\ dirty = [r \in Repos |-> FALSE]
  /\ needsReview = [r \in Repos |-> FALSE]
  /\ pushStatus = [r \in Repos |-> "unpushed"]
  /\ commits = [r \in Repos |-> 0]
  /\ branched = [r \in Repos |-> FALSE]
  /\ elementsPushed = 0
  /\ pushesDenied = 0
  /\ remoteBranchName = [r \in Repos |-> "none"]
  /\ pushedTo = [r \in Repos |-> {}]
  /\ pullRequest = [r \in Repos |-> << >>]
  /\ prEdited = [r \in Repos |-> FALSE]
  /\ thrown = [r \in Repos |-> "none"]
  /\ err = NoErr
  /\ report = NoReport
  /\ summary = "none"
  /\ exitCode = -1
  /\ stderr = NoErr
  /\ reportCalls = 0
  /\ orWrites = [r \in Repos |-> FALSE]
  /\ gateCalls = [r \in Repos |-> 0]
  /\ passRuns = [r \in Repos |-> 0]
  /\ invoked = [r \in Repos |-> << >>]
  /\ running = [r \in Repos |-> {}]
  /\ paced = [r \in Repos |-> FALSE]

Init ==
  /\ InitRegistry
  /\ InitRateLimit
  /\ InitTree
  /\ NoDiscovery
  /\ InitOptions
  /\ DefaultReviewOptions
  /\ InitRun

cfgVars == << max_changes, excluded, runsByDefault, blacklist, forceReview,
             branchToFix, prBranchName >>

elemVars == << dirty, needsReview, pushStatus, commits, branched >>

govVars == << elementsPushed, pushesDenied >>

netVars == << pushedTo, pullRequest, prEdited >>

outVars == << report, summary, exitCode, stderr, reportCalls >>

histVars == << orWrites, gateCalls, passRuns, invoked, running, paced >>

mainVars == << mainpc, loaded, idx, err >>

\* ---- ElementRepo ---------------------------------------------------------
\* a plain field: every write takes effect
SetNeedsReviewPlain(old, value) == value

\* set needsReview(value): the write is dropped once the field is true
SetNeedsReview(old, value) == IF old = FALSE THEN value ELSE old

\* ---- startup of _main ----------------------------------------------------
\* rimraf, github.user.get, getRepos, cloning, analyzeRepos, sort: all fine
Startup ==
  /\ mainpc = "startup"
  /\ mainpc' = "loop"
  /\ loaded' = TRUE
  /\ UNCHANGED << libVars, cfgVars, idx, pc, step, elemVars, govVars,
                  remoteBranchName, netVars, thrown, err, outVars, histVars >>

\* one of the awaits before the per-element loop rejects, before or after
\* elements.push(...) has filled the array
StartupFails ==
  /\ mainpc = "startup"
  /\ mainpc' = "caught"
  /\ loaded' \in BOOLEAN
  /\ err' = [kind |-> "startup", repo |-> 0]
  /\ UNCHANGED << libVars, cfgVars, idx, pc, step, elemVars, govVars,
                  remoteBranchName, netVars, thrown, outVars, histVars >>

\* ---- the for-loop of _main ------------------------------------------------
\* the continue forgotten: if (excludes.has(element.dir)) { tick(); } and the
\* try-block is entered for the excluded element
LoopExcludedNoContinue ==
  /\ mainpc = "loop"
  /\ idx <= NumRepos
  /\ idx \in excluded
  /\ pc[idx] = "new"
  /\ pc' = [pc EXCEPT ![idx] = "checkout"]
  /\ UNCHANGED << libVars, cfgVars, mainVars, step, elemVars, govVars,
                  remoteBranchName, netVars, thrown, outVars, histVars >>

\* if (excludes.has(element.dir)) { tick(); continue; }
LoopExcluded ==
  /\ mainpc = "loop"
  /\ idx <= NumRepos
  /\ idx \in excluded
  /\ pc[idx] = "new"
  /\ pc' = [pc EXCEPT ![idx] = "skipped"]
  /\ idx' = idx + 1
  /\ UNCHANGED << libVars, cfgVars, mainpc, loaded, step, elemVars, govVars,
                  remoteBranchName, netVars, thrown, err, outVars, histVars >>

\* elements.sort left out: the loop takes up the elements in the order the
\* clones happened to finish, not in the order of their directories
LoopEnterUnsorted ==
  /\ mainpc = "loop"
  /\ idx <= NumRepos
  /\ \E r \in Repos \ excluded :
       /\ pc[r] = "new"
       /\ pc' = [pc EXCEPT ![r] = "checkout"]
       /\ idx' = r
  /\ UNCHANGED << libVars, cfgVars, mainpc, loaded, err, step, elemVars, govVars,
                  remoteBranchName, netVars, thrown, outVars, histVars >>

\* entering the try-block for the element
LoopEnter ==
  /\ mainpc = "loop"
  /\ idx <= NumRepos
  /\ idx \notin excluded
  /\ pc[idx] = "new"
  /\ pc' = [pc EXCEPT ![idx] = "checkout"]
  /\ UNCHANGED << libVars, cfgVars, mainVars, step, elemVars, govVars,
                  remoteBranchName, netVars, thrown, outVars, histVars >>

\* the try-block completed: cleanupProgress.tick() and the next element
LoopTick ==
  /\ mainpc = "loop"
  /\ idx <= NumRepos
  /\ pc[idx] = "done"
  /\ idx' = idx + 1
  /\ UNCHANGED << libVars, cfgVars, mainpc, loaded, err, pc, step, elemVars, govVars,
                  remoteBranchName, netVars, thrown, outVars, histVars >>

\* the error logged and swallowed: the loop goes on with the next element
LoopCatchContinues ==
  /\ mainpc = "loop"
  /\ idx <= NumRepos
  /\ pc[idx] = "threw"
  /\ idx' = idx + 1
  /\ err' = [kind |-> thrown[idx], repo |-> idx]
  /\ UNCHANGED << libVars, cfgVars, mainpc, loaded, pc, step, elemVars, govVars,
                  remoteBranchName, netVars, thrown, outVars, histVars >>

\* catch (err) { throw new Error(`Error updating ${element.dir}...`) }:
\* the loop is left and _main rejects; main's catch is next
LoopCatch ==
  /\ mainpc = "loop"
  /\ idx <= NumRepos
  /\ pc[idx] = "threw"
  /\ mainpc' = "caught"
  /\ err' = [kind |-> thrown[idx], repo |-> idx]
  /\ UNCHANGED << libVars, cfgVars, loaded, idx, pc, step, elemVars, govVars,
                  remoteBranchName, netVars, thrown, outVars, histVars >>

\* ---- checkoutNewBranch and rateLimit(0) -----------------------------------
\* Branch.create(repo, branchName, commit, false) needs the name to be free:
\* with --branchToFix auto-cleanup the clone step has created that branch
checkoutNewBranch(r) ==
  /\ pc[r] = "checkout"
  /\ branchToFix # branchName
  /\ branched' = [branched EXCEPT ![r] = TRUE]
  /\ pc' = [pc EXCEPT ![r] = "rate"]
  /\ UNCHANGED << libVars, cfgVars, mainVars, step, dirty, needsReview, pushStatus,
                  commits, govVars, remoteBranchName, netVars, thrown,
                  outVars, histVars >>

\* getHeadCommit / Branch.create / checkoutBranch rejects
checkoutNewBranchFails(r) ==
  /\ pc[r] = "checkout"
  /\ pc' = [pc EXCEPT ![r] = "threw"]
  /\ thrown' = [thrown EXCEPT ![r] = "checkout"]
  /\ UNCHANGED << libVars, cfgVars, mainVars, step, elemVars, govVars,
                  remoteBranchName, netVars, outVars, histVars >>

\* the timer's resolve never called: `await rateLimit(0)` stays pending
rateLimitZeroPending(r) ==
  /\ pc[r] = "rate"
  /\ UNCHANGED vars

\* await rateLimit(0), then cleanup starts its loop over getPasses()
rateLimitZero(r) ==
  /\ pc[r] = "rate"
  /\ pc' = [pc EXCEPT ![r] = "cleanup"]
  /\ step' = [step EXCEPT ![r] = 1]
  /\ UNCHANGED << libVars, cfgVars, mainVars, elemVars, govVars, remoteBranchName,
                  netVars, thrown, outVars, histVars >>


\* ---- cleanup: the loop over getPasses() ------------------------------------
\* if (!step.runsByDefault) continue;
cleanupSkipsNonDefault(r) ==
  /\ pc[r] = "cleanup"
  /\ step[r] <= NumPasses
  /\ ~runsByDefault[step[r]]
  /\ step' = [step EXCEPT ![r] = step[r] + 1]
  /\ UNCHANGED << libVars, cfgVars, mainVars, pc, elemVars, govVars, remoteBranchName,
                  netVars, thrown, outVars, histVars >>

\* the blacklist test forgotten: the transform is entered for a blacklisted
\* element
cleanupIgnoresBlacklist(r) ==
  /\ pc[r] = "cleanup"
  /\ step[r] <= NumPasses
  /\ runsByDefault[step[r]]
  /\ r \in blacklist[step[r]]
  /\ pc' = [pc EXCEPT ![r] = "pass"]
  /\ passRuns' = [passRuns EXCEPT ![r] = passRuns[r] + 1]
  /\ invoked' = [invoked EXCEPT ![r] = Append(invoked[r], step[r])]
  /\ running' = [running EXCEPT ![r] = @ \cup {step[r]}]
  /\ UNCHANGED << libVars, cfgVars, mainVars, step, elemVars, govVars,
                  remoteBranchName, netVars, thrown, outVars, orWrites,
                  gateCalls, paced >>

\* if (stepConfig.blacklist && blacklist.indexOf(element.dir) !== -1) continue;
cleanupSkipsBlacklisted(r) ==
  /\ pc[r] = "cleanup"
  /\ step[r] <= NumPasses
  /\ runsByDefault[step[r]]
  /\ r \in blacklist[step[r]]
  /\ step' = [step EXCEPT ![r] = step[r] + 1]
  /\ UNCHANGED << libVars, cfgVars, mainVars, pc, elemVars, govVars, remoteBranchName,
                  netVars, thrown, outVars, histVars >>

\* the await left out: step.pass(element) is called and the loop goes on to
\* the next pass while the transform is still running
cleanupCallsPassNoAwait(r) ==
  /\ pc[r] = "cleanup"
  /\ step[r] <= NumPasses
  /\ runsByDefault[step[r]]
  /\ r \notin blacklist[step[r]]
  /\ step' = [step EXCEPT ![r] = step[r] + 1]
  /\ passRuns' = [passRuns EXCEPT ![r] = passRuns[r] + 1]
  /\ invoked' = [invoked EXCEPT ![r] = Append(invoked[r], step[r])]
  /\ running' = [running EXCEPT ![r] = @ \cup {step[r]}]
  /\ UNCHANGED << libVars, cfgVars, mainVars, pc, elemVars, govVars,
                  remoteBranchName, netVars, thrown, outVars, orWrites,
                  gateCalls, paced >>

\* await step.pass(element): the transform is entered
cleanupCallsPass(r) ==
  /\ pc[r] = "cleanup"
  /\ step[r] <= NumPasses
  /\ runsByDefault[step[r]]
  /\ r \notin blacklist[step[r]]
  /\ pc' = [pc EXCEPT ![r] = "pass"]
  /\ passRuns' = [passRuns EXCEPT ![r] = passRuns[r] + 1]
  /\ invoked' = [invoked EXCEPT ![r] = Append(invoked[r], step[r])]
  /\ running' = [running EXCEPT ![r] = @ \cup {step[r]}]
  /\ UNCHANGED << libVars, cfgVars, mainVars, step, elemVars, govVars,
                  remoteBranchName, netVars, thrown, outVars, orWrites,
                  gateCalls, paced >>

\* the loop bound off by one: cleanup may resolve before the last pass
cleanupReturnsEarly(r) ==
  /\ pc[r] = "cleanup"
  /\ step[r] >= NumPasses
  /\ pc' = [pc EXCEPT ![r] = "pushChanges"]
  /\ step' = [step EXCEPT ![r] = 0]
  /\ UNCHANGED << libVars, cfgVars, mainVars, elemVars, govVars, remoteBranchName,
                  netVars, thrown, outVars, histVars >>

\* the loop is exhausted: cleanup resolves and pushChanges is called
cleanupReturns(r) ==
  /\ pc[r] = "cleanup"
  /\ step[r] > NumPasses
  /\ pc' = [pc EXCEPT ![r] = "pushChanges"]
  /\ step' = [step EXCEPT ![r] = 0]
  /\ UNCHANGED << libVars, cfgVars, mainVars, elemVars, govVars, remoteBranchName,
                  netVars, thrown, outVars, histVars >>

\* ---- a pass transform ------------------------------------------------------
\* the places of a transform from which it can resolve or reject
InPass == {"pass", "wroteTrue", "wroteFalse", "committed"}

\* What a transform finds on disk is outside the model: it may write
\* needsReview (either value) and then call makeCommit, may call makeCommit
\* alone, may throw at any of these places, or return.

\* element.needsReview = value, through the setter
passWritesNeedsReview(r, value) ==
  /\ pc[r] = "pass"
  /\ needsReview' =
       [needsReview EXCEPT ![r] = SetNeedsReview(needsReview[r], value)]
  /\ orWrites' = [orWrites EXCEPT ![r] = orWrites[r] \/ value]
  /\ pc' = [pc EXCEPT ![r] = IF value THEN "wroteTrue" ELSE "wroteFalse"]
  /\ UNCHANGED << libVars, cfgVars, mainVars, step, dirty, pushStatus, commits,
                  branched, govVars, remoteBranchName, netVars, thrown,
                  outVars, gateCalls, passRuns, invoked, running, paced >>

\* makeCommit up to its await: element.dirty = true
makeCommit(r) ==
  /\ pc[r] \in {"pass", "wroteTrue", "wroteFalse"}
  /\ dirty' = [dirty EXCEPT ![r] = TRUE]
  /\ pc' = [pc EXCEPT ![r] = "commit"]
  /\ UNCHANGED << libVars, cfgVars, mainVars, step, needsReview, pushStatus, commits,
                  branched, govVars, remoteBranchName, netVars, thrown,
                  outVars, histVars >>

\* pushing as soon as a commit exists: pushChanges is entered from makeCommit,
\* before the remaining passes
makeCommitResolvesThenPushes(r) ==
  /\ pc[r] = "commit"
  /\ commits' = [commits EXCEPT ![r] = commits[r] + 1]
  /\ pc' = [pc EXCEPT ![r] = "pushChanges"]
  /\ running' = [running EXCEPT ![r] = @ \ {step[r]}]
  /\ UNCHANGED << libVars, cfgVars, mainVars, step, dirty, needsReview, pushStatus,
                  branched, govVars, remoteBranchName, netVars, thrown,
                  outVars, orWrites, gateCalls, passRuns, invoked,
                  paced >>

\* createCommitOnHead resolves
makeCommitResolves(r) ==
  /\ pc[r] = "commit"
  /\ commits' = [commits EXCEPT ![r] = commits[r] + 1]
  /\ pc' = [pc EXCEPT ![r] = "committed"]
  /\ UNCHANGED << libVars, cfgVars, mainVars, step, dirty, needsReview, pushStatus,
                  branched, govVars, remoteBranchName, netVars, thrown,
                  outVars, histVars >>

\* the rejection of createCommitOnHead caught inside the pass: the pass goes
\* on as after a commit, with none created
makeCommitRejectsCaught(r) ==
  /\ pc[r] = "commit"
  /\ pc' = [pc EXCEPT ![r] = "committed"]
  /\ thrown' = [thrown EXCEPT ![r] = "commit"]
  /\ UNCHANGED << libVars, cfgVars, mainVars, step, elemVars, govVars,
                  remoteBranchName, netVars, outVars, histVars >>

\* createCommitOnHead rejects: makeCommit, the pass and cleanup all reject
makeCommitRejects(r) ==
  /\ pc[r] = "commit"
  /\ pc' = [pc EXCEPT ![r] = "threw"]
  /\ thrown' = [thrown EXCEPT ![r] = "commit"]
  /\ step' = [step EXCEPT ![r] = 0]
  /\ running' = [running EXCEPT ![r] = @ \ {step[r]}]
  /\ UNCHANGED << libVars, cfgVars, mainVars, elemVars, govVars, remoteBranchName,
                  netVars, outVars, orWrites, gateCalls, passRuns, invoked,
                  paced >>

\* the places of a transform at which it can resolve: every write of
\* element.needsReview in a pass is followed by a makeCommit call
Resolving == {"pass", "committed"}

\* the transform resolves: cleanup goes on with the next pass
passReturns(r) ==
  /\ pc[r] \in Resolving
  /\ pc' = [pc EXCEPT ![r] = "cleanup"]
  /\ step' = [step EXCEPT ![r] = step[r] + 1]
  /\ running' = [running EXCEPT ![r] = @ \ {step[r]}]
  /\ UNCHANGED << libVars, cfgVars, mainVars, elemVars, govVars, remoteBranchName,
                  netVars, thrown, outVars, orWrites, gateCalls, passRuns, invoked,
                  paced >>

\* the error caught inside the loop and logged: cleanup goes on with the next
\* pass
passThrowsSwallowed(r) ==
  /\ pc[r] \in InPass
  /\ pc' = [pc EXCEPT ![r] = "cleanup"]
  /\ thrown' = [thrown EXCEPT ![r] = "pass"]
  /\ step' = [step EXCEPT ![r] = step[r] + 1]
  /\ running' = [running EXCEPT ![r] = @ \ {step[r]}]
  /\ UNCHANGED << libVars, cfgVars, mainVars, elemVars, govVars, remoteBranchName,
                  netVars, outVars, orWrites, gateCalls, passRuns, invoked,
                  paced >>

\* the transform rejects: cleanup rejects at once, no later pass is run
passThrows(r) ==
  /\ pc[r] \in InPass
  /\ pc' = [pc EXCEPT ![r] = "threw"]
  /\ thrown' = [thrown EXCEPT ![r] = "pass"]
  /\ step' = [step EXCEPT ![r] = 0]
  /\ running' = [running EXCEPT ![r] = @ \ {step[r]}]
  /\ UNCHANGED << libVars, cfgVars, mainVars, elemVars, govVars, remoteBranchName,
                  netVars, outVars, orWrites, gateCalls, passRuns, invoked,
                  paced >>

\* ---- the governor -----------------------------------------------------------
\* the test off by one: if (elementsPushed <= opts.max_changes)
pushIsAllowedOffByOne == elementsPushed <= max_changes

\* if (elementsPushed < opts.max_changes)
pushIsAllowedTest == elementsPushed < max_changes

\* elementsPushed++ hoisted above the test: denials are counted as pushes
pushIsAllowedCountsDenials(ret) ==
  /\ ret = pushIsAllowedTest
  /\ elementsPushed' = elementsPushed + 1
  /\ pushesDenied' = IF ret THEN pushesDenied ELSE pushesDenied + 1

\* elementsPushed++ left out: a grant is not counted
pushIsAllowedGrantUncounted(ret) ==
  /\ ret = pushIsAllowedTest
  /\ elementsPushed' = elementsPushed
  /\ pushesDenied' = IF ret THEN pushesDenied ELSE pushesDenied + 1

\* pushIsAllowed() returning ret, with its effect on the two counters
pushIsAllowed(ret) ==
  /\ ret = pushIsAllowedTest
  /\ elementsPushed' = IF ret THEN elementsPushed + 1 ELSE elementsPushed
  /\ pushesDenied' = IF ret THEN pushesDenied ELSE pushesDenied + 1

\* ---- pushChanges -------------------------------------------------------------
\* the review branch forgotten: everything is pushed onto the target branch
RemoteBranchAlwaysTarget(r) == targetBranch

\* forceReview not looked at: const makePr = element.needsReview
makePrUnforced(r) == needsReview[r]

\* const makePr = opts.forceReview || element.needsReview
makePr(r) == forceReview \/ needsReview[r]

\* let remoteBranchName = opts.branchToFix;
\* if (makePr) remoteBranchName = localBranchName;
RemoteBranchFor(r) == IF makePr(r) THEN branchName ELSE branchToFix

\* the dirty test placed after the governor: pushIsAllowed() is called for a
\* clean element before pushChanges returns
pushChangesAsksForClean(r) ==
  /\ pc[r] = "pushChanges"
  /\ ~dirty[r]
  /\ \E ret \in BOOLEAN :
       /\ pushIsAllowed(ret)
       /\ pushStatus' = [pushStatus EXCEPT ![r] = IF ret THEN @ ELSE "denied"]
  /\ gateCalls' = [gateCalls EXCEPT ![r] = gateCalls[r] + 1]
  /\ pc' = [pc EXCEPT ![r] = "done"]
  /\ UNCHANGED << libVars, cfgVars, mainVars, step, dirty, needsReview, commits,
                  branched, remoteBranchName, netVars, thrown, outVars,
                  orWrites, passRuns, invoked, running, paced >>

\* if (!element.dirty) return;
pushChangesNotDirty(r) ==
  /\ pc[r] = "pushChanges"
  /\ ~dirty[r]
  /\ pc' = [pc EXCEPT ![r] = "done"]
  /\ UNCHANGED << libVars, cfgVars, mainVars, step, elemVars, govVars,
                  remoteBranchName, netVars, thrown, outVars, histVars >>

\* the return forgotten: if (!pushIsAllowed()) { pushStatus = denied; } and
\* pushChanges goes on to push
pushChangesDeniedNoReturn(r) ==
  /\ pc[r] = "pushChanges"
  /\ dirty[r]
  /\ pushIsAllowed(FALSE)
  /\ gateCalls' = [gateCalls EXCEPT ![r] = gateCalls[r] + 1]
  /\ pushStatus' = [pushStatus EXCEPT ![r] = "denied"]
  /\ remoteBranchName' = [remoteBranchName EXCEPT ![r] = RemoteBranchFor(r)]
  /\ pc' = [pc EXCEPT ![r] = "pushBranch"]
  /\ UNCHANGED << libVars, cfgVars, mainVars, step, dirty, needsReview, commits,
                  branched, netVars, thrown, outVars, orWrites, passRuns,
                  invoked, running, paced >>

\* if (!pushIsAllowed()) { element.pushStatus = PushStatus.denied; return; }
pushChangesDenied(r) ==
  /\ pc[r] = "pushChanges"
  /\ dirty[r]
  /\ pushIsAllowed(FALSE)
  /\ gateCalls' = [gateCalls EXCEPT ![r] = gateCalls[r] + 1]
  /\ pushStatus' = [pushStatus EXCEPT ![r] = "denied"]
  /\ pc' = [pc EXCEPT ![r] = "done"]
  /\ UNCHANGED << libVars, cfgVars, mainVars, step, dirty, needsReview, commits,
                  branched, remoteBranchName, netVars, thrown, outVars,
                  orWrites, passRuns, invoked, running, paced >>

\* the slot is granted and pushBranch is called
pushChangesGranted(r) ==
  /\ pc[r] = "pushChanges"
  /\ dirty[r]
  /\ pushIsAllowed(TRUE)
  /\ gateCalls' = [gateCalls EXCEPT ![r] = gateCalls[r] + 1]
  /\ remoteBranchName' = [remoteBranchName EXCEPT ![r] = RemoteBranchFor(r)]
  /\ pc' = [pc EXCEPT ![r] = "pushBranch"]
  /\ UNCHANGED << libVars, cfgVars, mainVars, step, elemVars, netVars, thrown,
                  outVars, orWrites, passRuns, invoked, running, paced >>

\* the throw forgotten: catch (e) { element.pushStatus = PushStatus.failed; }
\* and control falls through to the statement after the try
pushChangesCatchSwallows(r, what) ==
  /\ pushStatus' = [pushStatus EXCEPT ![r] = "failed"]
  /\ pc' = [pc EXCEPT ![r] = "afterTry"]
  /\ UNCHANGED << thrown, remoteBranchName >>

\* catch (e) { element.pushStatus = PushStatus.failed; throw e; }
pushChangesCatch(r, what) ==
  /\ pushStatus' = [pushStatus EXCEPT ![r] = "failed"]
  /\ thrown' = [thrown EXCEPT ![r] = what]
  /\ pc' = [pc EXCEPT ![r] = "threw"]
  /\ remoteBranchName' = [remoteBranchName EXCEPT ![r] = "none"]

\* remote.push(refs/heads/local:refs/heads/remote) resolves; with makePr
\* the pull request is next, otherwise the try is left
pushBranch(r) ==
  /\ pc[r] = "pushBranch"
  /\ pushedTo' =
       [pushedTo EXCEPT ![r] = @ \cup {<< branchName, remoteBranchName[r] >>}]
  /\ pc' = [pc EXCEPT ![r] = IF makePr(r) THEN "rateLimit" ELSE "afterTry"]
  /\ UNCHANGED << libVars, cfgVars, mainVars, step, elemVars, govVars,
                  remoteBranchName, pullRequest, prEdited, thrown, outVars,
                  histVars >>

\* the slot handed back when the push fails: elementsPushed-- in the catch
pushBranchRejectsFreesSlot(r) ==
  /\ pc[r] = "pushBranch"
  /\ pushChangesCatch(r, "push")
  /\ elementsPushed' = elementsPushed - 1
  /\ UNCHANGED << libVars, cfgVars, mainVars, step, dirty, needsReview, commits,
                  branched, pushesDenied, netVars, outVars, histVars >>

\* getRemote or remote.push rejects
pushBranchRejects(r) ==
  /\ pc[r] = "pushBranch"
  /\ pushChangesCatch(r, "push")
  /\ UNCHANGED << libVars, cfgVars, mainVars, step, dirty, needsReview, commits,
                  branched, govVars, netVars, outVars, histVars >>

\* the await of rateLimit left out: the pull request is created at once
createPullRequestNoRateLimit(r) ==
  /\ pc[r] = "rateLimit"
  /\ pc' = [pc EXCEPT ![r] = "prCreate"]
  /\ UNCHANGED << libVars, cfgVars, mainVars, step, elemVars, govVars,
                  remoteBranchName, netVars, thrown, outVars, histVars >>

\* createPullRequest: await rateLimit(5000), until the promise resolves
createPullRequestRateLimit(r) ==
  /\ pc[r] = "rateLimit"
  /\ pc' = [pc EXCEPT ![r] = "prCreate"]
  /\ paced' = [paced EXCEPT ![r] = TRUE]
  /\ UNCHANGED << libVars, cfgVars, mainVars, step, elemVars, govVars,
                  remoteBranchName, netVars, thrown, outVars, orWrites,
                  gateCalls, passRuns, invoked, running >>

\* github.pullRequests.create({head: localBranchName, base: opts.branchToFix})
createPullRequest(r) ==
  /\ pc[r] = "prCreate"
  /\ pullRequest' = [pullRequest EXCEPT ![r] = << branchName, branchToFix >>]
  /\ pc' = [pc EXCEPT ![r] = "prEdit"]
  /\ UNCHANGED << libVars, cfgVars, mainVars, step, elemVars, govVars,
                  remoteBranchName, pushedTo, prEdited, thrown, outVars,
                  histVars >>

\* github.pullRequests.create rejects
createPullRequestRejects(r) ==
  /\ pc[r] = "prCreate"
  /\ pushChangesCatch(r, "pr")
  /\ UNCHANGED << libVars, cfgVars, mainVars, step, dirty, needsReview, commits,
                  branched, govVars, netVars, outVars, histVars >>

\* github.issues.edit({assignee, labels: ['autogenerated']}) resolves
issuesEdit(r) ==
  /\ pc[r] = "prEdit"
  /\ prEdited' = [prEdited EXCEPT ![r] = TRUE]
  /\ pc' = [pc EXCEPT ![r] = "afterTry"]
  /\ UNCHANGED << libVars, cfgVars, mainVars, step, elemVars, govVars,
                  remoteBranchName, pushedTo, pullRequest, thrown, outVars,
                  histVars >>

\* github.issues.edit rejects
issuesEditRejects(r) ==
  /\ pc[r] = "prEdit"
  /\ pushChangesCatch(r, "edit")
  /\ UNCHANGED << libVars, cfgVars, mainVars, step, dirty, needsReview, commits,
                  branched, govVars, netVars, outVars, histVars >>

\* after the try: element.pushStatus = PushStatus.succeeded
pushChangesSucceeds(r) ==
  /\ pc[r] = "afterTry"
  /\ pushStatus' = [pushStatus EXCEPT ![r] = "succeeded"]
  /\ pc' = [pc EXCEPT ![r] = "done"]
  /\ remoteBranchName' = [remoteBranchName EXCEPT ![r] = "none"]
  /\ UNCHANGED << libVars, cfgVars, mainVars, step, dirty, needsReview, commits,
                  branched, govVars, netVars, thrown, outVars, histVars >>

\* ---- reporting and the end of main -------------------------------------------
\* the elements array as main sees it
Elements == IF loaded THEN Repos ELSE {}

\* the report with the failed elements also listed as pushed:
\* pushedElements filtered by pushStatus !== PushStatus.denied
reportListsFailedAsPushed ==
  [printed |-> TRUE,
   denied |-> {e \in Elements : pushStatus[e] = "denied"},
   pushed |-> {e \in Elements : pushStatus[e] \in {"succeeded", "failed"}},
   failed |-> {e \in Elements : pushStatus[e] = "failed"}]

\* reportOnChangesMade(elements): the three lists it prints
reportOnChangesMade ==
  [printed |-> TRUE,
   denied |-> {e \in Elements : pushStatus[e] = "denied"},
   pushed |-> {e \in Elements : pushStatus[e] = "succeeded"},
   failed |-> {e \in Elements : pushStatus[e] = "failed"}]

\* the ceiling looked at first: max_changes = 0 prints the instruction to
\* raise it even when nothing was denied
SummaryCeilingFirst ==
  IF max_changes = 0 THEN "changes ready to push"
  ELSE IF elementsPushed = 0 /\ pushesDenied = 0 THEN "No changes needed!"
  ELSE IF pushesDenied = 0 THEN "Successfully pushed"
  ELSE "Successfully pushed, remain"

\* the one-line summary at the end of _main
Summary ==
  IF elementsPushed = 0 /\ pushesDenied = 0 THEN "No changes needed!"
  ELSE IF pushesDenied = 0 THEN "Successfully pushed"
  ELSE IF max_changes = 0 THEN "changes ready to push"
  ELSE "Successfully pushed, remain"

\* denial treated as a failure of the run: after the summary the process
\* exits with status 1 when pushesDenied > 0
MainReturnsFailsOnDenial ==
  /\ mainpc = "loop"
  /\ idx > NumRepos
  /\ report' = reportOnChangesMade
  /\ reportCalls' = reportCalls + 1
  /\ summary' = Summary
  /\ exitCode' = IF pushesDenied > 0 THEN 1 ELSE 0
  /\ mainpc' = "exited"
  /\ UNCHANGED << libVars, cfgVars, loaded, idx, err, pc, step, elemVars, govVars,
                  remoteBranchName, netVars, thrown, stderr, histVars >>

\* the loop is over: report, summary, _main and main resolve, exit status 0
MainReturns ==
  /\ mainpc = "loop"
  /\ idx > NumRepos
  /\ report' = reportOnChangesMade
  /\ reportCalls' = reportCalls + 1
  /\ summary' = Summary
  /\ exitCode' = 0
  /\ mainpc' = "exited"
  /\ UNCHANGED << libVars, cfgVars, loaded, idx, err, pc, step, elemVars, govVars,
                  remoteBranchName, netVars, thrown, stderr, histVars >>

\* main's catch without the report: console.error and process.exit(1) only
MainCatchNoReport ==
  /\ mainpc = "caught"
  /\ stderr' = err
  /\ exitCode' = 1
  /\ mainpc' = "exited"
  /\ UNCHANGED << libVars, cfgVars, loaded, idx, err, pc, step, elemVars, govVars,
                  remoteBranchName, netVars, thrown, report, summary,
                  reportCalls, histVars >>

\* main's catch: reportOnChangesMade(elements), console.error, process.exit(1)
MainCatch ==
  /\ mainpc = "caught"
  /\ report' = reportOnChangesMade
  /\ reportCalls' = reportCalls + 1
  /\ stderr' = err
  /\ exitCode' = 1
  /\ mainpc' = "exited"
  /\ UNCHANGED << libVars, cfgVars, loaded, idx, err, pc, step, elemVars, govVars,
                  remoteBranchName, netVars, thrown, summary, histVars >>

\* the inner try left out: the error thrown by reportOnChangesMade leaves
\* main's catch in place of the one _main rejected with
MainCatchReportEscapes ==
  /\ mainpc = "caught"
  /\ reportCalls' = reportCalls + 1
  /\ stderr' = [kind |-> "report", repo |-> 0]
  /\ exitCode' = 1
  /\ mainpc' = "exited"
  /\ UNCHANGED << libVars, cfgVars, loaded, idx, err, pc, step, elemVars, govVars,
                  remoteBranchName, netVars, thrown, report, summary,
                  histVars >>

\* main's catch when reportOnChangesMade throws before it prints: catch (_) {},
\* then console.error(err) and process.exit(1)
MainCatchReportThrows ==
  /\ mainpc = "caught"
  /\ reportCalls' = reportCalls + 1
  /\ stderr' = err
  /\ exitCode' = 1
  /\ mainpc' = "exited"
  /\ UNCHANGED << libVars, cfgVars, loaded, idx, err, pc, step, elemVars, govVars,
                  remoteBranchName, netVars, thrown, report, summary,
                  histVars >>

\* ---- the sequential run (_main awaits each element in turn) -----------------
ElementStep(r) ==
  \/ checkoutNewBranch(r)
  \/ checkoutNewBranchFails(r)
  \/ rateLimitZero(r)
  \/ cleanupSkipsNonDefault(r)
  \/ cleanupSkipsBlacklisted(r)
  \/ cleanupCallsPass(r)
  \/ cleanupReturns(r)
  \/ \E value \in BOOLEAN : passWritesNeedsReview(r, value)
  \/ makeCommit(r)
  \/ makeCommitResolves(r)
  \/ makeCommitRejects(r)
  \/ passReturns(r)
  \/ passThrows(r)
  \/ pushChangesNotDirty(r)
  \/ pushChangesDenied(r)
  \/ pushChangesGranted(r)
  \/ pushBranch(r)
  \/ pushBranchRejects(r)
  \/ createPullRequestRateLimit(r)
  \/ createPullRequest(r)
  \/ createPullRequestRejects(r)
  \/ issuesEdit(r)
  \/ issuesEditRejects(r)
  \/ pushChangesSucceeds(r)

Next ==
  \/ Startup
  \/ StartupFails
  \/ LoopExcluded
  \/ LoopEnter
  \/ LoopTick
  \/ LoopCatch
  \/ \E r \in Repos : ElementStep(r)
  \/ MainReturns
  \/ MainCatch

Spec == Init /\ [][Next]_vars

\* reportOnChangesMade has no throw of its own; main guards the call all the
\* same. The run with a report that may throw (console.log failing):
MainNext ==
  \/ Next
  \/ MainCatchReportThrows

MainSpec == Init /\ [][MainNext]_vars

\* ---- the run with the review options given -----------------------------------
\* --branchToFix: master, another branch, or the name of the working branch
Branches == {targetBranch, "2.0-preview", branchName}

\* --prBranchName: the default, or the name of the working branch
PrBranches == {"tedium-change", branchName}

\* only the last element is in `excludes`; the first pass blacklists the
\* first element
ReviewInit ==
  /\ InitRegistry
  /\ InitRateLimit
  /\ InitTree
  /\ NoDiscovery
  /\ max_changes \in 0..MaxChangesBound
  /\ excluded = {NumRepos}
  /\ runsByDefault \in Registries
  /\ blacklist = [p \in Passes |-> IF p = 1 THEN {1} ELSE {}]
  /\ forceReview \in BOOLEAN
  /\ branchToFix \in Branches
  /\ prBranchName \in PrBranches
  /\ InitRun

ReviewSpec == ReviewInit /\ [][Next]_vars


\* ==== properties ===============================================================
\* the places of pushChanges between the grant of a slot and its last step
Pushing == {"pushBranch", "rateLimit", "prCreate", "prEdit", "afterTry"}

\* the dirty elements whose push decision has been taken
Decided ==
  {r \in Repos :
     /\ dirty[r]
     /\ \/ pc[r] \in Pushing \cup {"done"}
        \/ pc[r] = "threw" /\ thrown[r] \in {"push", "pr", "edit"}}

\* the elements that received a push attempt
Attempted ==
  {r \in Repos :
     pc[r] \in Pushing \/ pushStatus[r] \in {"succeeded", "failed"}}

Denied == {r \in Repos : pushStatus[r] = "denied"}

\* C1. Governor ceiling: with max_changes = N and M >= N dirty, non-excluded
\* elements whose push decision was taken, exactly N received a push attempt
\* and exactly M - N are denied; when the run is over every attempt has ended
\* in succeeded or failed. Which elements are dirty is arbitrary, so this
\* covers every order of dirty and clean elements.
C1_GovernorCeiling ==
  /\ Cardinality(Decided) >= max_changes =>
       /\ Cardinality(Attempted) = max_changes
       /\ Cardinality(Denied) = Cardinality(Decided) - max_changes
  /\ Attempted \cap Denied = {}
  /\ mainpc = "exited" =>
       \A r \in Attempted : pushStatus[r] \in {"succeeded", "failed"}

\* a finished run with one slot, used by one element and denied to another
C1_Witness ==
  /\ mainpc = "exited"
  /\ max_changes = 1
  /\ \E a, b \in Repos :
       /\ pushStatus[a] \in {"succeeded", "failed"}
       /\ pushStatus[b] = "denied"

\* the elements for which pushIsAllowed returned true
Granted == {r \in Repos : gateCalls[r] > 0 /\ pushStatus[r] # "denied"}

\* C2. pushIsAllowed returns true at most max_changes times; once it has
\* returned false, every later call returns false; elementsPushed <=
\* max_changes in every state; a denying call leaves elementsPushed unchanged.
C2_GateCounting ==
  /\ [](/\ elementsPushed <= max_changes
        /\ Cardinality(Granted) <= max_changes
        /\ Cardinality(Granted) = elementsPushed
        /\ pushesDenied > 0 => elementsPushed = max_changes)
  /\ [][/\ pushesDenied' # pushesDenied => elementsPushed' = elementsPushed
        /\ (pushesDenied > 0 /\ gateCalls' # gateCalls) =>
             /\ pushesDenied' = pushesDenied + 1
             /\ elementsPushed' = elementsPushed]_vars

\* a grant followed by a denial
C2_Witness == elementsPushed >= 1 /\ pushesDenied >= 1

\* C3. Monotonic review latch: after any sequence of writes to an element's
\* needsReview the field equals the OR of the values written, and it never
\* goes from true to false.
C3_ReviewLatch ==
  /\ [](\A r \in Repos : needsReview[r] = orWrites[r])
  /\ [][\A r \in Repos : needsReview[r] => needsReview'[r]]_vars

\* set(true) by one pass, then set(false) by a later pass: still true
C3_Witness ==
  \E r \in Repos : pc[r] = "wroteFalse" /\ needsReview[r] /\ step[r] > 1


\* C4. Push routing of a dirty element that was granted a slot. With
\* needsReview the local branch is pushed to the remote branch of the same
\* name, then a pull request from it to the target branch is created, then the
\* PR is assigned and labelled, and succeeded is set only after all three; without
\* needsReview the local branch is pushed onto the target branch and no pull
\* request exists; when a step throws the disposition is failed and no later
\* step has been performed.
C4_PushRouting ==
  \A r \in Repos :
    /\ pushedTo[r] # {} => gateCalls[r] = 1 /\ pushStatus[r] # "denied"
    /\ pushedTo[r] \subseteq
         {<< branchName, IF needsReview[r] THEN branchName ELSE targetBranch >>}
    /\ pullRequest[r] # << >> =>
         /\ needsReview[r]
         /\ pullRequest[r] = << branchName, targetBranch >>
         /\ pushedTo[r] = {<< branchName, branchName >>}
    /\ prEdited[r] => pullRequest[r] # << >>
    /\ pushStatus[r] = "succeeded" =>
         IF needsReview[r]
           THEN /\ pushedTo[r] = {<< branchName, branchName >>}
                /\ pullRequest[r] = << branchName, targetBranch >>
                /\ prEdited[r]
           ELSE /\ pushedTo[r] = {<< branchName, targetBranch >>}
                /\ pullRequest[r] = << >>
                /\ ~prEdited[r]
    /\ thrown[r] \in {"push", "pr", "edit"} <=> pushStatus[r] = "failed"
    /\ thrown[r] = "push" => pushedTo[r] = {}
    /\ thrown[r] \in {"push", "pr"} => pullRequest[r] = << >>
    /\ thrown[r] \in {"push", "pr", "edit"} => ~prEdited[r]

\* one element pushed through a pull request, another pushed directly
C4_Witness ==
  \E a, b \in Repos :
    /\ pushStatus[a] = "succeeded" /\ needsReview[a] /\ prEdited[a]
    /\ pushStatus[b] = "succeeded" /\ ~needsReview[b]

\* C5. With max_changes = 0, the default, nothing is ever pushed and no pull
\* request is ever created, and every dirty element whose push decision was
\* taken is denied.
C5_NoPushAtZero ==
  max_changes = DefaultMaxChanges =>
    \A r \in Repos :
      /\ pushedTo[r] = {}
      /\ pullRequest[r] = << >>
      /\ ~prEdited[r]
      /\ pc[r] \notin Pushing
      /\ pushStatus[r] \notin {"succeeded", "failed"}
      /\ r \in Decided => pushStatus[r] = "denied"

\* a finished run with max_changes = 0 in which two dirty elements were denied
C5_Witness ==
  /\ max_changes = 0
  /\ mainpc = "exited"
  /\ Cardinality(Denied) = 2

\* C6. An element's disposition starts as unpushed and is written at most
\* once: once it is denied, succeeded or failed no step changes it, and
\* nothing is pushed for the element afterwards.
C6_DispositionOnce ==
  /\ [](\A r \in Repos : pc[r] = "new" => pushStatus[r] = "unpushed")
  /\ [][\A r \in Repos :
          pushStatus[r] # "unpushed" =>
            /\ pushStatus'[r] = pushStatus[r]
            /\ pushedTo'[r] = pushedTo[r]
            /\ pullRequest'[r] = pullRequest[r]
            /\ prEdited'[r] = prEdited[r]]_vars

\* an element was denied and the run went on: a later element is in a pass
C6_Witness ==
  \E a, b \in Repos : a < b /\ pushStatus[a] = "denied" /\ pc[b] \in InPass

\* the passes that cleanup runs on element r
Applicable(r) == {p \in Passes : runsByDefault[p] /\ r \notin blacklist[p]}

\* C7. An element whose disposition is not unpushed has finished pass
\* execution: no pass is running on it, none is still to run (every pass
\* that applies to it was invoked and none threw).
C7_DispositionAfterPasses ==
  \A r \in Repos :
    pushStatus[r] # "unpushed" =>
      /\ pc[r] \in {"done", "threw"}
      /\ step[r] = 0
      /\ passRuns[r] = Cardinality(Applicable(r))
      /\ thrown[r] \notin {"checkout", "pass", "commit"}

\* an element got its disposition after all NumPasses passes ran on it
C7_Witness ==
  \E r \in Repos : pushStatus[r] = "succeeded" /\ passRuns[r] = NumPasses

\* C8. pushIsAllowed is consulted exactly once for each dirty element whose
\* passes completed (an element whose pass threw never reaches the push
\* decision), never more than once, after the local branch was created and
\* every pass that applies has run, and before anything is pushed.
C8_GateOnce ==
  \A r \in Repos :
    /\ gateCalls[r] <= 1
    /\ r \in Decided => gateCalls[r] = 1
    /\ gateCalls[r] = 1 =>
         /\ branched[r]
         /\ passRuns[r] = Cardinality(Applicable(r))
         /\ step[r] = 0
         /\ pc[r] \in Pushing \cup {"done", "threw"}
    /\ passRuns[r] > 0 => branched[r]
    /\ (pushedTo[r] # {} \/ pc[r] \in Pushing) => gateCalls[r] = 1

\* branch, passes, gate, push: an element for which all four happened
C8_Witness ==
  \E r \in Repos :
    /\ pc[r] = "done"
    /\ branched[r] /\ passRuns[r] >= 1 /\ gateCalls[r] = 1
    /\ pushedTo[r] # {}

\* C9. Failure isolation: when a pass throws for element B, every element A
\* whose push decision completed earlier keeps its commits and pushes, is
\* printed by the report under its disposition (succeeded or denied) and
\* under no other, and the process exits with status 1. Nothing in the run
\* takes a commit, a push or a pull request back.
C9_FailureIsolation ==
  /\ []((mainpc = "exited" /\ err.kind \in {"pass", "commit"}) =>
          /\ exitCode = 1
          /\ report.printed
          /\ \A a \in Repos \ {err.repo} :
               pc[a] = "done" =>
                 /\ dirty[a] =>
                      /\ commits[a] >= 1
                      /\ pushStatus[a] \in {"succeeded", "denied"}
                 /\ a \in report.pushed <=> pushStatus[a] = "succeeded"
                 /\ a \in report.denied <=> pushStatus[a] = "denied"
                 /\ a \notin report.failed
                 /\ pushStatus[a] = "succeeded" <=> pushedTo[a] # {})
  /\ [][\A r \in Repos :
          /\ commits'[r] >= commits[r]
          /\ pushedTo[r] \subseteq pushedTo'[r]
          /\ pullRequest[r] # << >> => pullRequest'[r] = pullRequest[r]
          /\ prEdited[r] => prEdited'[r]]_vars

\* a pass threw for B after A had been pushed successfully, and the run ended
C9_Witness ==
  /\ mainpc = "exited"
  /\ err.kind = "pass"
  /\ \E a \in Repos : a < err.repo /\ pushStatus[a] = "succeeded"

\* C10 as stated: a push or PR-creation error for an element is recorded as
\* failed, and the elements after it in the run are still processed (their
\* passes run and their push decision is taken).
C10_LaterElementsProcessed ==
  mainpc = "exited" =>
    \A r \in Repos :
      pushStatus[r] = "failed" =>
        \A b \in Repos \ excluded :
          b > r => pc[b] \in {"done", "threw"}

\* C10, amended. A push or PR-creation error for an element is recorded as
\* failed for that element and re-thrown; _main wraps it and leaves the loop,
\* so no element after it is processed (no branch, no pass, no push
\* decision); main reports the element under failed and exits with status 1.
C10_FailedPushAbortsRun ==
  \A r \in Repos :
    pushStatus[r] = "failed" =>
      /\ pc[r] = "threw"
      /\ thrown[r] \in {"push", "pr", "edit"}
      /\ \A b \in Repos :
           b > r =>
             /\ pc[b] = "new"
             /\ ~branched[b]
             /\ passRuns[b] = 0
             /\ gateCalls[b] = 0
             /\ pushStatus[b] = "unpushed"
      /\ mainpc \in {"caught", "exited"} =>
           err = [kind |-> thrown[r], repo |-> r]
      /\ mainpc = "exited" =>
           /\ exitCode = 1
           /\ r \in report.failed

\* a push failed for an element that a non-excluded element follows
C10_Witness ==
  /\ mainpc = "exited"
  /\ \E r \in Repos :
       /\ pushStatus[r] = "failed"
       /\ \E b \in Repos \ excluded : b > r

\* C11. Pass-runner error policy: when a pass's transform throws for an
\* element (from its own code or from makeCommit), cleanup rejects at once:
\* the very next step of the run is _main's catch with that error, no pass is
\* invoked on the element afterwards, no push decision is taken for it, and
\* the commits made before the throw stay (their number never changes again).
C11_PassErrorPolicy ==
  /\ [](\A r \in Repos :
          thrown[r] \in {"pass", "commit"} =>
            /\ pc[r] = "threw"
            /\ step[r] = 0
            /\ gateCalls[r] = 0
            /\ pushStatus[r] = "unpushed"
            /\ mainpc # "loop" => err = [kind |-> thrown[r], repo |-> r])
  /\ [][\A r \in Repos :
          /\ thrown'[r] \in {"pass", "commit"} =>
               /\ passRuns'[r] = passRuns[r]
               /\ commits'[r] = commits[r]
               /\ dirty'[r] = dirty[r]
          /\ (thrown[r] \in {"pass", "commit"} /\ mainpc = "loop") =>
               mainpc' = "caught"]_vars

\* a pass committed and then threw while a later pass was still to run: the
\* run is over, the commit is there and the later pass was never invoked
C11_Witness ==
  /\ mainpc = "exited"
  /\ \E r \in Repos :
       /\ thrown[r] = "pass"
       /\ commits[r] >= 1
       /\ passRuns[r] < Cardinality(Applicable(r))

\* the passes invoked on element r so far
InvokedOn(r) == {invoked[r][i] : i \in 1..Len(invoked[r])}

\* the places of an element after cleanup has resolved for it
AfterCleanup == {"pushChanges", "done"} \cup Pushing

\* C12. Blacklist exclusion: when element X is in the configured blacklist of
\* pass P, P's transform is never invoked on X, and no step sets X's dirty or
\* needsReview or commits in X on behalf of P (every such step belongs to the
\* pass that is running on X, which does not blacklist X); once cleanup has
\* resolved for an element, every default pass that does not blacklist that
\* element was invoked on it: P on the other elements, the other passes on X.
C12_BlacklistExclusion ==
  /\ [](\A r \in Repos :
          /\ \A p \in Passes : r \in blacklist[p] => p \notin InvokedOn(r)
          /\ pc[r] \in InPass \cup {"commit"} =>
               /\ step[r] \in Passes
               /\ r \notin blacklist[step[r]]
          /\ pc[r] \in AfterCleanup =>
               \A p \in Passes :
                 (runsByDefault[p] /\ r \notin blacklist[p]) =>
                   p \in InvokedOn(r))
  /\ [][\A r \in Repos :
          (\/ dirty'[r] # dirty[r]
           \/ needsReview'[r] # needsReview[r]
           \/ commits'[r] # commits[r]) =>
            /\ step[r] \in Passes
            /\ r \notin blacklist[step[r]]
            /\ invoked[r][Len(invoked[r])] = step[r]]_vars

\* pass 1 blacklists element 1: cleanup resolved for element 1 with only
\* pass 2 invoked, while pass 1 ran on another element and committed there
C12_Witness ==
  /\ 1 \in blacklist[1]
  /\ pc[1] = "done"
  /\ invoked[1] = << 2 >>
  /\ \E b \in Repos \ {1} : 1 \in InvokedOn(b) /\ commits[b] >= 1

\* ==== the pass registry and its callers =====================================
\* bounds: the register calls made while the modules load, and the --pass
\* names given on the command line
MaxPasses == 2

MaxListed == 2

\* everything main() works on
mainState == << cfgVars, mainVars, pc, step, elemVars, govVars,
                remoteBranchName, netVars, thrown, outVars, orWrites,
                gateCalls, passRuns, invoked, running, paced >>

\* what the registry and its callers leave untouched
runState == << mainState, rateVars, passVars, discVars >>

\* main() is not running: the options at their defaults
NoRun ==
  /\ max_changes = DefaultMaxChanges
  /\ excluded = Repos
  /\ runsByDefault = [p \in Passes |-> TRUE]
  /\ blacklist = [p \in Passes |-> {}]
  /\ DefaultReviewOptions
  /\ InitRun

\* the array given back without slice(): return passes
getPassesNoCopy ==
  /\ list' = 1
  /\ op' = "getPasses"
  /\ UNCHANGED << arrays, registered, runnerVars, runState >>

\* export function register(p) { passes.push(p); }
register(p) ==
  /\ phase = "load"
  /\ Len(arrays[1]) < MaxPasses
  /\ arrays' = [arrays EXCEPT ![1] = Append(@, p)]
  /\ registered' = Append(registered, p)
  /\ op' = "register"
  /\ UNCHANGED << list, runnerVars, runState >>

\* export function getPasses() { return passes.slice(); }: a new array with
\* the elements of `passes`; the caller drops the array it held before
getPasses ==
  /\ arrays' = [arrays EXCEPT ![2] = arrays[1]]
  /\ list' = 2
  /\ op' = "getPasses"
  /\ UNCHANGED << registered, runnerVars, runState >>

\* a descriptor of the caller's own that it may add to the array it holds
Foreign == [name |-> "npm", runsByDefault |-> "true"]

\* the caller adds an entry to the array it holds: list.push(d)
listPush(d) ==
  /\ list # 0
  /\ Len(arrays[list]) <= MaxPasses
  /\ arrays' = [arrays EXCEPT ![list] = Append(@, d)]
  /\ op' = "push"
  /\ UNCHANGED << list, registered, runnerVars, runState >>

\* the caller removes the last entry: list.pop()
listPop ==
  /\ list # 0
  /\ Len(arrays[list]) > 0
  /\ arrays' = [arrays EXCEPT ![list] = SubSeq(@, 1, Len(@) - 1)]
  /\ op' = "pop"
  /\ UNCHANGED << list, registered, runnerVars, runState >>

\* the caller reorders the entries: list.reverse()
listReverse ==
  /\ list # 0
  /\ arrays' = [arrays EXCEPT ![list] =
                  [i \in 1..Len(@) |-> @[Len(@) + 1 - i]]]
  /\ op' = "reverse"
  /\ UNCHANGED << list, registered, runnerVars, runState >>

RegistryInit == InitRegistry /\ InitRateLimit /\ InitTree /\ NoDiscovery /\ NoRun

RegistryNext ==
  \/ \E p \in CleanupPass : register(p)
  \/ getPasses
  \/ listPush(Foreign)
  \/ listPop
  \/ listReverse

RegistrySpec == RegistryInit /\ [][RegistryNext]_vars

\* ---- the command line, _main's passesToRun and cleanup ----------------------
\* const passNames = getPasses().map(p => p.name)
passNames == {arrays[1][i].name : i \in 1..Len(arrays[1])}

\* the --pass lists a user may give
Listings == UNION {[1..n -> PassNames] : n \in 0..MaxListed}

\* config.passes: an entry for some of the pass names, each with a blacklist
Configs == UNION {[D -> SUBSET Dirs] : D \in SUBSET PassNames}

\* the cli option 'pass': its type function throws on a name that is not in
\* passNames; otherwise opts.pass holds the names given (defaultValue []),
\* and _main reads the configuration file
parseArgs(names, cfg) ==
  /\ phase = "load"
  /\ IF \A i \in 1..Len(names) : names[i] \in passNames
       THEN phase' = "parsed" /\ opts_pass' = names /\ config' = cfg
       ELSE phase' = "failed" /\ UNCHANGED << opts_pass, config >>
  /\ UNCHANGED << regVars, call, ran, runState >>

\* the option dropped: cleanup is always called without a pass list
passesToRunNull == [explicit |-> FALSE, names |-> << >>]

\* let passesToRun = null; if (opts.pass.length > 0) passesToRun = opts.pass;
passesToRun ==
  IF Len(opts_pass) > 0
    THEN [explicit |-> TRUE, names |-> opts_pass]
    ELSE [explicit |-> FALSE, names |-> << >>]

\* const stepConfig = config[step.name] || {}; stepConfig.blacklist
Blacklist(cfg, name) == IF name \in DOMAIN cfg THEN cfg[name] ELSE {}

\* the test written as step.runsByDefault === false: a descriptor that leaves
\* the property out runs
runsByDefaultIsFalse(p) == p.runsByDefault = "false"

\* !step.runsByDefault: true for false and for a property left out
notRunsByDefault(p) == p.runsByDefault # "true"

\* the for-loop of cleanup from place i of getPasses(): the places whose pass
\* is awaited, in the order they are awaited
RECURSIVE cleanupLoop(_, _, _, _)
cleanupLoop(steps, i, cfg, dir) ==
  IF i > Len(steps) THEN << >>
  ELSE IF notRunsByDefault(steps[i])
    THEN cleanupLoop(steps, i + 1, cfg, dir)
  ELSE IF dir \in Blacklist(cfg, steps[i].name)
    THEN cleanupLoop(steps, i + 1, cfg, dir)
  ELSE << i >> \o cleanupLoop(steps, i + 1, cfg, dir)

\* cleanup(element, config.passes || {}) with no pass list, every transform
\* resolving
cleanup(dir) ==
  /\ phase = "parsed"
  /\ ~passesToRun.explicit
  /\ call' = [made |-> TRUE, dir |-> dir, explicit |-> FALSE, names |-> << >>]
  /\ ran' = cleanupLoop(arrays[1], 1, config, dir)
  /\ UNCHANGED << regVars, phase, opts_pass, config, runState >>

\* the descriptor a pass name resolves to: the last one registered under it
Resolve(steps, name) ==
  CHOOSE i \in 1..Len(steps) :
    /\ steps[i].name = name
    /\ \A j \in 1..Len(steps) : steps[j].name = name => j <= i

\* the requested names from place k on: resolve, skip when blacklisted,
\* otherwise await the transform
RECURSIVE listedLoop(_, _, _, _, _)
listedLoop(steps, names, k, cfg, dir) ==
  IF k > Len(names) THEN << >>
  ELSE IF dir \in Blacklist(cfg, names[k])
    THEN listedLoop(steps, names, k + 1, cfg, dir)
  ELSE << Resolve(steps, names[k]) >>
         \o listedLoop(steps, names, k + 1, cfg, dir)

\* cleanup(element, config, passesToRun) with a pass list
cleanupListed(dir) ==
  /\ phase = "parsed"
  /\ passesToRun.explicit
  /\ call' = [made |-> TRUE, dir |-> dir, explicit |-> TRUE,
              names |-> passesToRun.names]
  /\ ran' = listedLoop(arrays[1], passesToRun.names, 1, config, dir)
  /\ UNCHANGED << regVars, phase, opts_pass, config, runState >>

RunnerNext ==
  \/ \E p \in CleanupPass : register(p)
  \/ \E names \in Listings : \E cfg \in Configs : parseArgs(names, cfg)
  \/ \E dir \in Dirs : cleanup(dir)
  \/ \E dir \in Dirs : cleanupListed(dir)

RunnerSpec == RegistryInit /\ [][RunnerNext]_vars

\* C13. With no explicit pass list, cleanup awaits exactly the registered
\* passes whose runsByDefault is true (and that do not blacklist the element,
\* C12), each once, in the order they were registered; a pass whose
\* runsByDefault is false or was left out is not run.
C13_DefaultPasses ==
  (call.made /\ ~call.explicit) =>
    /\ arrays[1] = registered
    /\ \A i \in 1..Len(registered) :
         (/\ registered[i].runsByDefault = "true"
          /\ call.dir \notin Blacklist(config, registered[i].name))
         <=> \E k \in 1..Len(ran) : ran[k] = i
    /\ \A k, l \in 1..Len(ran) : k < l => ran[k] < ran[l]
    /\ \A k \in 1..Len(ran) :
         registered[ran[k]].runsByDefault \notin {"false", "undefined"}

\* a registry with a pass that leaves runsByDefault out and a default pass
\* after it: only the second was run
C13_Witness ==
  /\ call.made /\ ~call.explicit
  /\ Len(registered) = 2
  /\ registered[1].runsByDefault = "undefined"
  /\ registered[2].runsByDefault = "true"
  /\ ran = << 2 >>

C15_UniqueNames ==
  \A i, j \in 1..Len(arrays[1]) :
    i # j => arrays[1][i].name # arrays[1][j].name

\* C16. getPasses returns every registered descriptor, in registration order,
\* in an array of its own: adding to, removing from or reordering a returned
\* array leaves `passes` as it was, so the registry always holds what was
\* registered and every later getPasses call returns that.
C16_DefensiveCopy ==
  /\ [](/\ arrays[1] = registered
        /\ op = "getPasses" => (list # 0 /\ arrays[list] = registered))
  /\ [][op' \in {"push", "pop", "reverse"} => arrays'[1] = arrays[1]]_vars

\* the caller reordered the array it got, and it now differs from `passes`
C16_Witness ==
  /\ op = "reverse"
  /\ Len(registered) = 2
  /\ arrays[list] # registered
  /\ arrays[1] = registered

\* ==== rateLimit ===============================================================
\* bounds: the calls made, and the longest delay asked for
MaxCalls == 3

MaxDelay == 2

\* previousPromise = curr forgotten: every call chains on the first promise
rateLimitUnchained(delay) ==
  /\ Len(promises) < MaxCalls
  /\ promises' = Append(promises,
       [delay |-> delay, prev |-> previousPromise, state |-> "pending",
        called |-> now, due |-> 0, at |-> 0])
  /\ UNCHANGED << previousPromise, now, regVars, runnerVars, passVars, discVars,
                  mainState >>

\* rateLimit(delay): curr = previousPromise.then(...); previousPromise = curr;
\* return curr
rateLimit(delay) ==
  /\ Len(promises) < MaxCalls
  /\ promises' = Append(promises,
       [delay |-> delay, prev |-> previousPromise, state |-> "pending",
        called |-> now, due |-> 0, at |-> 0])
  /\ previousPromise' = Len(promises) + 1
  /\ UNCHANGED << now, regVars, runnerVars, passVars, discVars,
                  mainState >>

\* whether the promise a call chained on has resolved
Settled(i) == IF i = 0 THEN TRUE ELSE promises[i].state = "resolved"

\* the then-callback of promise i runs once the promise it chained on has
\* resolved: new Promise((resolve) => { setTimeout(resolve, delay); })
thenCallback(i) ==
  /\ promises[i].state = "pending"
  /\ Settled(promises[i].prev)
  /\ promises' = [promises EXCEPT ![i].state = "timer",
                                  ![i].due = now + promises[i].delay]
  /\ UNCHANGED << previousPromise, now, regVars, runnerVars, passVars, discVars,
                  mainState >>

\* the timer of promise i fires: resolve()
setTimeoutFires(i) ==
  /\ promises[i].state = "timer"
  /\ now >= promises[i].due
  /\ promises' = [promises EXCEPT ![i].state = "resolved", ![i].at = now]
  /\ UNCHANGED << previousPromise, now, regVars, runnerVars, passVars, discVars,
                  mainState >>

\* time passes while some timer is still to come due
tick ==
  /\ \E i \in 1..Len(promises) :
       promises[i].state = "timer" /\ now < promises[i].due
  /\ now' = now + 1
  /\ UNCHANGED << promises, previousPromise, regVars, runnerVars, passVars, discVars,
                  mainState >>

\* the event loop: callbacks, timers and the clock
eventLoop ==
  \/ \E i \in 1..Len(promises) : thenCallback(i)
  \/ \E i \in 1..Len(promises) : setTimeoutFires(i)
  \/ tick

RateInit == InitRegistry /\ InitRateLimit /\ InitTree /\ NoDiscovery /\ NoRun

RateNext ==
  \/ \E delay \in 0..MaxDelay : rateLimit(delay)
  \/ \E i \in 1..Len(promises) : thenCallback(i)
  \/ \E i \in 1..Len(promises) : setTimeoutFires(i)
  \/ tick

\* the event loop never stops while a callback or a timer is waiting
RateSpec == RateInit /\ [][RateNext]_vars /\ WF_vars(eventLoop)

\* the i-th call has been made and its promise has resolved
Resolved(i) ==
  IF i <= Len(promises) THEN promises[i].state = "resolved" ELSE FALSE

\* C17. rateLimit chaining: the promise of the i-th call resolves only after
\* the promises of all earlier calls have resolved and its own delay has
\* elapsed after that (and after the call), so the promises resolve in call
\* order; and every promise eventually resolves, also when calls are made
\* while earlier promises are pending.
C17_RateLimitChain ==
  /\ [](\A i \in 1..Len(promises) :
          promises[i].state = "resolved" =>
            /\ promises[i].at >= promises[i].called + promises[i].delay
            /\ \A j \in 1..(i - 1) :
                 /\ promises[j].state = "resolved"
                 /\ promises[i].at >= promises[j].at + promises[i].delay)
  /\ \A i \in 1..MaxCalls :
       [](Len(promises) >= i => <>Resolved(i))

\* three calls made before the first promise resolved, all resolved at last
C17_Witness ==
  /\ Len(promises) = 3
  /\ \A i \in 1..3 : promises[i].state = "resolved"
  /\ promises[3].called < promises[1].at
  /\ promises[2].delay > 0

\* C18. Every hosting-API write is preceded by a pacing delay from the
\* rateLimit queue: createPullRequest has awaited rateLimit(5000) before
\* pullRequests.create is called, and so also before the issues.edit that
\* assigns and labels the pull request (the one delay precedes both writes:
\* the edit follows the creation with no delay of its own).
C18_WritesPaced ==
  \A r \in Repos :
    /\ pc[r] \in {"prCreate", "prEdit"} => paced[r]
    /\ pullRequest[r] # << >> => paced[r]
    /\ prEdited[r] => paced[r]
    /\ thrown[r] \in {"pr", "edit"} => paced[r]

\* a pull request was created, assigned and labelled
C18_Witness ==
  \E r \in Repos : prEdited[r] /\ pullRequest[r] # << >> /\ paced[r]

\* ==== the cleanup passes, run twice ==========================================
\* bounds: the runs made on one checkout, and the ciphertexts travis-encrypt
\* can give for one plaintext
MaxRuns == 2

NumCiphers == 2

\* the passes run: cleanupBower, addIssueTemplate, generatePackageJson,
\* cleanupTravisConfig, under the names they register
PassFns == {"bower", "issue-template", "package-json", "travis"}

\* bowerConfig['main']: left out, '', the element's html file, another file,
\* [], [''], an array of one file, an array of two
MainValues == {"absent", "", "elem", "other", "[]", "['']", "[s]", "[s,t]"}

\* bowerConfig['ignore']: left out, [], or a list of patterns
IgnoreValues == {"absent", "[]", "list"}

\* bowerConfig.devDependencies: left out, or with webcomponentsjs missing or
\* at another version ("other"), or at the desired version
WcjsValues == {"nodev", "other", "desired"}

\* bowerConfig.dependencies: left out, or with polymer at 2.0-preview or at
\* something else
PolymerValues == {"nodeps", "preview", "rc"}

\* .github/ISSUE_TEMPLATE.md: missing, exactly ISSUE_TEMPLATE, or the
\* instructions comment followed by ISSUE_TEMPLATE
TemplateValues == {"absent", "ISSUE_TEMPLATE", "instructions+ISSUE_TEMPLATE"}

\* package.json: missing, hand-written, or as generatePackageJson writes it
PackageValues == {"absent", "other", "generated"}

\* .travis.yml: missing, anything else, or the blob cleanupTravisConfig dumps
\* with the sauce keys under one ciphertext
TravisValues ==
  {[state |-> "absent", cipher |-> 0], [state |-> "other", cipher |-> 0]}
    \cup {[state |-> "clean", cipher |-> c] : c \in 1..NumCiphers}

\* the checkouts a pass can be given
Trees ==
  {t \in [bower : BOOLEAN, main : MainValues, ignore : IgnoreValues,
          wcjs : WcjsValues, polymer : PolymerValues, elemFile : BOOLEAN,
          template : TemplateValues, package : PackageValues,
          travis : TravisValues] :
     ~t.bower => /\ t.main = "absent"
                 /\ t.ignore = "absent"
                 /\ t.wcjs = "nodev"
                 /\ t.polymer = "nodeps"}

\* !bowerConfig['main'] || bowerConfig['main'].length === 0
mainMissing(m) == m \in {"absent", "", "[]"}

\* Array.isArray(bowerConfig['main']) && bowerConfig['main'].length === 1
mainIsSingle(m) == m \in {"['']", "[s]"}

\* bowerConfig['main'][0]
mainFirst(m) == IF m = "['']" THEN "" ELSE "other"

\* !bowerConfig['ignore']
ignoreMissing(t) == t.ignore = "absent"

\* cleanupBower: each step that applies writes bower.json and makes a commit
cleanupBower(t) ==
  IF ~t.bower
    THEN [tree |-> t, commits |-> 0, review |-> FALSE]
    ELSE
      LET addMain == mainMissing(t.main) /\ t.elemFile
          m1 == IF addMain THEN "elem" ELSE t.main
          toString == mainIsSingle(m1)
          m2 == IF toString THEN mainFirst(m1) ELSE m1
          addIgnore == ignoreMissing(t)
          setWcjs == t.wcjs = "other"
          setPolymer == t.polymer = "preview"
          made == << addMain, toString, addIgnore, setWcjs, setPolymer >>
      IN  [tree |-> [t EXCEPT !.main = m2,
                              !.ignore = IF addIgnore THEN "[]" ELSE @,
                              !.wcjs = IF setWcjs THEN "desired" ELSE @,
                              !.polymer = IF setPolymer THEN "rc" ELSE @],
           commits |-> Cardinality({i \in 1..5 : made[i]}),
           review |-> FALSE]

\* addIssueTemplate: nothing when the file is ISSUE_TEMPLATE; otherwise the
\* instructions comment and ISSUE_TEMPLATE are written and committed
addIssueTemplate(t) ==
  IF t.template = "ISSUE_TEMPLATE"
    THEN [tree |-> t, commits |-> 0, review |-> FALSE]
    ELSE [tree |-> [t EXCEPT !.template = "instructions+ISSUE_TEMPLATE"],
          commits |-> 1, review |-> FALSE]

\* generatePackageJson: package.json is written from bower.json and what it
\* held, and committed
generatePackageJson(t) ==
  [tree |-> [t EXCEPT !.package = "generated"], commits |-> 1,
   review |-> FALSE]

\* cleanupTravisConfig, the encryptor giving ciphertext c: the blob is
\* written and committed when it differs from the one read
cleanupTravisConfig(t, c) ==
  IF t.travis.state = "absent"
    THEN [tree |-> t, commits |-> 0, review |-> FALSE]
    ELSE
      LET updatedTravisConfigBlob == [state |-> "clean", cipher |-> c]
      IN  IF t.travis # updatedTravisConfigBlob
            THEN [tree |-> [t EXCEPT !.travis = updatedTravisConfigBlob],
                  commits |-> 1, review |-> TRUE]
            ELSE [tree |-> t, commits |-> 0, review |-> FALSE]

\* step.pass(element) for the pass registered under name p
pass(p, t, c) ==
  CASE p = "bower" -> cleanupBower(t)
    [] p = "issue-template" -> addIssueTemplate(t)
    [] p = "package-json" -> generatePackageJson(t)
    [] p = "travis" -> cleanupTravisConfig(t, c)

\* await step.pass(element) resolves: the files are as the pass left them,
\* and element.dirty was set when makeCommit was called
runPass(p, c) ==
  /\ Len(log) < MaxRuns
  /\ LET r == pass(p, tree, c)
     IN  /\ tree' = r.tree
         /\ log' = Append(log, [pass |-> p, before |-> tree,
                                after |-> r.tree, commits |-> r.commits,
                                dirty |-> r.commits > 0,
                                needsReview |-> r.review])
  /\ UNCHANGED << regVars, runnerVars, rateVars, discVars, mainState >>

cleanupBowerRuns == runPass("bower", 1)

addIssueTemplateRuns == runPass("issue-template", 1)

generatePackageJsonRuns == runPass("package-json", 1)

cleanupTravisConfigRuns == \E c \in 1..NumCiphers : runPass("travis", c)

PassInit ==
  /\ InitRegistry
  /\ InitRateLimit
  /\ NoRun
  /\ NoDiscovery
  /\ tree \in Trees
  /\ log = << >>

PassNext ==
  \/ cleanupBowerRuns
  \/ addIssueTemplateRuns
  \/ generatePackageJsonRuns
  \/ cleanupTravisConfigRuns

PassSpec == PassInit /\ [][PassNext]_vars

\* a run that made no change: no commit, dirty not set, the files as before
NoChange(run) ==
  /\ run.commits = 0
  /\ ~run.dirty
  /\ run.after = run.before

\* C19. Idempotence, for every pass: a run of a pass right after a
\* successful run of the same pass on the same checkout makes no commit, does
\* not set dirty and leaves the files unchanged.
C19_PassesIdempotent ==
  \A i \in 1..(Len(log) - 1) :
    log[i + 1].pass = log[i].pass => NoChange(log[i + 1])

\* bower.json lacks ignore, or lacks a main that can be derived
LacksDefault(t) ==
  /\ t.bower
  /\ \/ t.ignore = "absent"
     \/ mainMissing(t.main) /\ t.elemFile

\* C20. The bower pass on a bower.json that lacks ignore, or a main that can
\* be derived: the first run adds the field, writes the file and commits; a
\* second run on the patched file makes no commit and leaves the file
\* unchanged.
C20_BowerDefaultsOnce ==
  \A i \in 1..(Len(log) - 1) :
    ( /\ log[i].pass = "bower"
      /\ log[i + 1].pass = "bower"
      /\ LacksDefault(log[i].before) )
    => /\ log[i].commits > 0
       /\ log[i].after # log[i].before
       /\ log[i].after.ignore # "absent"
       /\ ~mainMissing(log[i].after.main) \/ ~log[i].before.elemFile
       /\ NoChange(log[i + 1])

\* at the report printed at the end of _main (no error), needsReview implies
\* dirty
ReviewedAreDirtyOnReturn ==
  (mainpc = "exited" /\ exitCode = 0) =>
    \A r \in Elements : needsReview[r] => dirty[r]

\* C21. When the end-of-run report is produced, on the normal path and on the
\* error path, every element with needsReview true also has dirty true.
C21_ReviewImpliesDirty ==
  (mainpc = "exited" /\ report.printed) =>
    \A r \in Elements : needsReview[r] => dirty[r]

\* dirty changes only in makeCommit, called from a running pass, and only
\* from false to true
DirtySetByMakeCommit ==
  [][\A r \in Repos :
       /\ dirty[r] => dirty'[r]
       /\ dirty'[r] # dirty[r] =>
            /\ pc[r] \in InPass
            /\ pc'[r] = "commit"]_vars

\* C22. dirty is false when an element is created and is set only inside a
\* pass; whenever dirty is true and no makeCommit call is in flight, at least
\* one commit has been created in that repository during this run.
C22_DirtyMeansCommitted ==
  \A r \in Repos :
    /\ pc[r] \in {"new", "skipped", "checkout", "rate"} => ~dirty[r]
    /\ dirty[r] => passRuns[r] >= 1
    /\ (dirty[r] /\ pc[r] # "commit") => commits[r] >= 1

\* C23. The end-of-run report partitions the elements by final disposition:
\* an element is printed under "would have been pushed" exactly when it is
\* denied, under "pushed successfully" exactly when it succeeded, under
\* "FAILED" exactly when it failed, so under one category at most, and an
\* element that is unpushed (never dirty, or not reached) is printed under
\* none.
C23_ReportPartition ==
  report.printed =>
    /\ mainpc = "exited"
    /\ \A r \in Repos :
         /\ r \in report.denied <=> (loaded /\ pushStatus[r] = "denied")
         /\ r \in report.pushed <=> (loaded /\ pushStatus[r] = "succeeded")
         /\ r \in report.failed <=> (loaded /\ pushStatus[r] = "failed")
         /\ pushStatus[r] = "unpushed" =>
              r \notin report.denied \cup report.pushed \cup report.failed
    /\ report.denied \cap report.pushed = {}
    /\ report.denied \cap report.failed = {}
    /\ report.pushed \cap report.failed = {}

\* a report that lists one element, under pushed only, and leaves out
\* another that finished its passes without becoming dirty
C23_Witness ==
  /\ report.printed
  /\ \E a, c \in Repos :
       /\ report.pushed = {a}
       /\ report.denied = {} /\ report.failed = {}
       /\ pc[c] = "done" /\ ~dirty[c] /\ pushStatus[c] = "unpushed"

\* C24. After any error that aborts the run, main still calls the report
\* before the process ends; when the report itself throws, that error is
\* swallowed: the error printed is the one that aborted the run, and the exit
\* status is 1. (A run without an error prints no error and exits with 0.)
C24_ReportBestEffort ==
  /\ mainpc = "caught" => /\ err # NoErr
                          /\ reportCalls = 0
                          /\ exitCode = -1
  /\ mainpc = "exited" =>
       /\ reportCalls = 1
       /\ IF err # NoErr
            THEN stderr = err /\ exitCode = 1
            ELSE stderr = NoErr /\ exitCode = 0 /\ report.printed

\* a pass threw, the report was called and threw before printing, and the
\* error of the pass was printed
C24_Witness ==
  /\ mainpc = "exited"
  /\ err.kind = "pass"
  /\ loaded
  /\ reportCalls = 1
  /\ ~report.printed
  /\ stderr = err
  /\ exitCode = 1

\* C25. An element whose directory is in `excludes` is never processed: no
\* branch is created in it, no pass runs on it, no commit is made, the
\* governor is not consulted for it, nothing is pushed and no pull request is
\* created, and its disposition stays unpushed.
C25_ExcludedUntouched ==
  \A r \in excluded :
    /\ pc[r] \in {"new", "skipped"}
    /\ ~branched[r]
    /\ passRuns[r] = 0
    /\ invoked[r] = << >>
    /\ ~dirty[r] /\ ~needsReview[r] /\ commits[r] = 0
    /\ gateCalls[r] = 0
    /\ pushedTo[r] = {}
    /\ pullRequest[r] = << >>
    /\ pushStatus[r] = "unpushed"
    /\ r \notin report.denied \cup report.pushed \cup report.failed

\* a finished run that skipped an excluded element and pushed a later one
C25_Witness ==
  /\ mainpc = "exited"
  /\ exitCode = 0
  /\ \E r \in excluded, b \in Repos :
       /\ r < b
       /\ pc[r] = "skipped"
       /\ pushStatus[b] = "succeeded"

\* C26. An element that no pass made dirty causes no further action: the
\* governor is not consulted for it (elementsPushed and pushesDenied count
\* only the calls made for dirty elements), nothing is pushed, no pull
\* request is created, and its disposition stays unpushed.
C26_CleanNoAction ==
  /\ \A r \in Repos :
       ~dirty[r] =>
         /\ gateCalls[r] = 0
         /\ pc[r] \notin Pushing
         /\ pushedTo[r] = {}
         /\ pullRequest[r] = << >>
         /\ ~prEdited[r]
         /\ pushStatus[r] = "unpushed"
  /\ elementsPushed + pushesDenied =
       Cardinality({r \in Repos : dirty[r] /\ gateCalls[r] = 1})

\* with one slot, a clean element went through its passes and pushChanges
\* without using it, and a later dirty element was pushed
C26_Witness ==
  /\ max_changes = 1
  /\ \E a, b \in Repos :
       /\ a < b
       /\ pc[a] = "done" /\ ~dirty[a] /\ passRuns[a] >= 1
       /\ pushStatus[b] = "succeeded"

\* C27. Governor denial is an expected outcome and not an error: a denied
\* element has thrown nothing and its try-block completed; a run in which
\* nothing throws ends without an error, with every denied element printed
\* under denied, with the summary printed (one that counts the denials when
\* there are any), and with exit status 0.
C27_DenialIsNotAnError ==
  /\ \A r \in Repos :
       pushStatus[r] = "denied" =>
         /\ thrown[r] = "none"
         /\ pc[r] = "done"
         /\ err.repo # r
  /\ ( /\ mainpc = "exited"
       /\ err.kind # "startup"
       /\ \A r \in Repos : thrown[r] = "none" ) =>
       /\ err = NoErr
       /\ stderr = NoErr
       /\ exitCode = 0
       /\ report.printed
       /\ report.denied = Denied
       /\ pushesDenied = Cardinality(Denied)
       /\ summary # "none"
       /\ Denied # {} =>
            summary \in {"changes ready to push", "Successfully pushed, remain"}

\* a finished run with one slot: one element pushed, a later one denied
C27_Witness ==
  /\ mainpc = "exited"
  /\ exitCode = 0
  /\ max_changes = 1
  /\ \E a, b \in Repos :
       /\ pushStatus[a] = "succeeded"
       /\ pushStatus[b] = "denied"
       /\ b \in report.denied
  /\ summary = "Successfully pushed, remain"

\* C28. The passes on one element run strictly one after another: at no time
\* are two transforms running on the same element; a transform is running
\* only while cleanup awaits it, so a pass starts only after the one before it
\* has completed; and no transform is running when pushChanges takes the push
\* decision for the element or at any time afterwards.
C28_PassesSequential ==
  \A r \in Repos :
    /\ Cardinality(running[r]) <= 1
    /\ running[r] # {} =>
         /\ pc[r] \in InPass \cup {"commit"}
         /\ running[r] = {step[r]}
         /\ invoked[r][Len(invoked[r])] = step[r]
    /\ pc[r] = "cleanup" => running[r] = {}
    /\ pc[r] \in AfterCleanup => running[r] = {}
    /\ gateCalls[r] > 0 => running[r] = {}
    /\ \A i, j \in 1..Len(invoked[r]) : i < j => invoked[r][i] < invoked[r][j]

\* the second pass is running on an element after the first one completed
C28_Witness ==
  \E r \in Repos :
    /\ invoked[r] = << 1, 2 >>
    /\ running[r] = {2}
    /\ pc[r] = "commit"
    /\ commits[r] >= 1

\* C29. With forceReview set, every dirty element that is granted a slot goes
\* through review, whatever its needsReview: the only branch pushed is the
\* working branch, onto the remote branch of the same name, which is never
\* the target branch; after the push the pull request is created, and an
\* element that succeeded has its pull request, assigned and labelled.
C29_ForcedReview ==
  forceReview =>
    \A r \in Repos :
      /\ \A b \in pushedTo[r] :
           /\ b = << branchName, branchName >>
           /\ b[2] # branchToFix
      /\ pc[r] \in {"pushBranch", "rateLimit", "prCreate", "prEdit"} =>
           remoteBranchName[r] = branchName
      /\ pc[r] = "afterTry" => prEdited[r]
      /\ pushStatus[r] = "succeeded" =>
           /\ pushedTo[r] = {<< branchName, branchName >>}
           /\ pullRequest[r] = << branchName, branchToFix >>
           /\ prEdited[r]
      /\ (pushStatus[r] = "failed" /\ thrown[r] = "edit") =>
           pullRequest[r] = << branchName, branchToFix >>

\* forceReview set: an element no pass marked for review was pushed to the
\* working branch and got its pull request
C29_Witness ==
  /\ forceReview
  /\ \E r \in Repos :
       /\ ~needsReview[r]
       /\ pushStatus[r] = "succeeded"
       /\ pullRequest[r] = << branchName, "2.0-preview" >>

\* C30. When a pull request is sent, the remote branch that is pushed and
\* used as the head of the pull request is the one named by prBranchName.
C30_PrBranchNameUsed ==
  \A r \in Repos :
    pullRequest[r] # << >> =>
      /\ pullRequest[r][1] = prBranchName
      /\ pushedTo[r] = {<< branchName, prBranchName >>}

\* the four one-line summaries _main can print
Summaries ==
  {"No changes needed!", "Successfully pushed", "changes ready to push",
   "Successfully pushed, remain"}

\* C31. The one-line summary is chosen from the counters: 'No changes needed'
\* iff elementsPushed = 0 and pushesDenied = 0; 'Successfully pushed to N
\* repos' iff pushesDenied = 0 and elementsPushed > 0; 'N changes ready to
\* push' iff pushesDenied > 0 and max_changes = 0; the mixed message
\* otherwise. A run that does not throw prints one of the four, a run that
\* throws prints none.
C31_SummaryChoice ==
  /\ summary # "none" =>
       /\ summary \in Summaries
       /\ summary = "No changes needed!" <=>
            (elementsPushed = 0 /\ pushesDenied = 0)
       /\ summary = "Successfully pushed" <=>
            (pushesDenied = 0 /\ elementsPushed > 0)
       /\ summary = "changes ready to push" <=>
            (pushesDenied > 0 /\ max_changes = 0)
       /\ summary = "Successfully pushed, remain" <=>
            (pushesDenied > 0 /\ max_changes # 0)
  /\ (mainpc = "exited" /\ exitCode = 0) => summary \in Summaries
  /\ (mainpc = "exited" /\ exitCode # 0) => summary = "none"
  /\ mainpc # "exited" => summary = "none"

\* a run with the ceiling at 0 in which two elements were denied ended with
\* the instruction to raise the ceiling
C31_Witness ==
  /\ mainpc = "exited"
  /\ summary = "changes ready to push"
  /\ max_changes = 0
  /\ pushesDenied = 2
  /\ elementsPushed = 0

\* ---- the run when every awaited call settles ---------------------------------
\* only the last element is in `excludes`; the first pass blacklists the
\* first element
LiveInit ==
  /\ InitRegistry
  /\ InitRateLimit
  /\ InitTree
  /\ NoDiscovery
  /\ max_changes \in 0..MaxChangesBound
  /\ excluded = {NumRepos}
  /\ runsByDefault \in Registries
  /\ blacklist = [p \in Passes |-> IF p = 1 THEN {1} ELSE {}]
  /\ DefaultReviewOptions
  /\ InitRun

\* every promise _main awaits for an element (git, github, the timer of
\* rateLimit) is settled in the end, and its continuation is run
LiveSpec ==
  LiveInit /\ [][Next]_vars /\ \A r \in Repos : WF_vars(ElementStep(r))

\* the try-block of the loop is over for element r: pushChanges returned
\* (clean after all its passes, denied or succeeded), or the push failed, or
\* a pass, the commit or the branch threw
Finished(r) ==
  \/ /\ pc[r] = "done"
     /\ \/ /\ pushStatus[r] = "unpushed"
           /\ ~dirty[r]
           /\ InvokedOn(r) = Applicable(r)
        \/ pushStatus[r] = "denied"
        \/ pushStatus[r] = "succeeded"
  \/ /\ pc[r] = "threw"
     /\ \/ pushStatus[r] = "failed"
        \/ /\ pushStatus[r] = "unpushed"
           /\ thrown[r] \in {"checkout", "pass", "commit"}

\* C32. Once _main begins processing an element that is not excluded, the
\* element eventually reaches one of: unpushed with all passes done and not
\* dirty, denied, succeeded, failed, or a pass / commit / branch error that
\* aborts it, as long as every external call returns or throws.
C32_ProcessingEnds ==
  \A r \in Repos : (pc[r] = "checkout") ~> Finished(r)

\* a later element was taken up after the first one had been pushed, and a
\* pass threw on it
C32_Witness ==
  /\ pushStatus[1] = "succeeded"
  /\ pc[2] = "threw"
  /\ thrown[2] = "pass"
  /\ 2 \notin excluded

\* ---- getRepos: removing the duplicates github's pagination gives -------------
MaxRaw == 3

NumNames == 3

\* repo.name of the entries github returns
Names == 1..NumNames

\* the raw results: entry i of `repos` is the object pushed i-th; two objects
\* may carry the same name
RawResults ==
  UNION {[1..n -> [name : Names]] : n \in 0..MaxRaw}

\* the array with the place of each entry in the raw results as its identity
Tagged(raw) == [i \in 1..Len(raw) |-> [name |-> raw[i].name, id |-> i]]

\* the membership test reduced to the entry kept last: only a run of equal
\* names is collapsed
repoIdsHasLast(name) ==
  /\ dedupedRepos # << >>
  /\ dedupedRepos[Len(dedupedRepos)].name = name

\* repoIds.has(repo.name)
repoIdsHas(name) == name \in repoIds

\* if (repoIds.has(repo.name)) continue;
dedupContinue ==
  /\ ~returned
  /\ reposPos <= Len(repos)
  /\ repoIdsHas(repos[reposPos].name)
  /\ reposPos' = reposPos + 1
  /\ UNCHANGED << repos, repoIds, dedupedRepos, returned, regVars, runnerVars,
                  rateVars, passVars, mainState >>

\* repoIds.add(repo.name); dedupedRepos.push(repo);
dedupPush ==
  /\ ~returned
  /\ reposPos <= Len(repos)
  /\ ~repoIdsHas(repos[reposPos].name)
  /\ repoIds' = repoIds \cup {repos[reposPos].name}
  /\ dedupedRepos' = Append(dedupedRepos, repos[reposPos])
  /\ reposPos' = reposPos + 1
  /\ UNCHANGED << repos, returned, regVars, runnerVars, rateVars, passVars,
                  mainState >>

\* return dedupedRepos;
getReposReturns ==
  /\ ~returned
  /\ reposPos > Len(repos)
  /\ returned' = TRUE
  /\ UNCHANGED << repos, reposPos, repoIds, dedupedRepos, regVars, runnerVars,
                  rateVars, passVars, mainState >>

\* the raw results are in `repos`, the loop has not started
DiscoveryInit ==
  /\ InitRegistry
  /\ InitRateLimit
  /\ InitTree
  /\ NoRun
  /\ \E raw \in RawResults : repos = Tagged(raw)
  /\ reposPos = 1
  /\ repoIds = {}
  /\ dedupedRepos = << >>
  /\ returned = FALSE

DiscoveryNext ==
  \/ dedupContinue
  \/ dedupPush
  \/ getReposReturns

DiscoverySpec == DiscoveryInit /\ [][DiscoveryNext]_vars

\* the places in the raw results at which a name occurs for the first time
FirstOccurrences ==
  {i \in 1..Len(repos) : \A j \in 1..(i - 1) : repos[j].name # repos[i].name}

\* C33. getRepos removes duplicates by name: in the list it returns no two
\* entries have the same name, every name of the raw results appears once,
\* and the entries are the first occurrences, in their order.
C33_DedupByName ==
  returned =>
    /\ \A i, j \in 1..Len(dedupedRepos) :
         i # j => dedupedRepos[i].name # dedupedRepos[j].name
    /\ {dedupedRepos[i].name : i \in 1..Len(dedupedRepos)} =
         {repos[i].name : i \in 1..Len(repos)}
    /\ {dedupedRepos[i].id : i \in 1..Len(dedupedRepos)} = FirstOccurrences
    /\ \A i, j \in 1..Len(dedupedRepos) :
         i < j => dedupedRepos[i].id < dedupedRepos[j].id

\* a name came back twice with another name in between, and the list
\* returned holds two entries
C33_Witness ==
  /\ returned
  /\ Len(repos) = 3
  /\ repos[1].name = repos[3].name
  /\ repos[1].name # repos[2].name
  /\ Len(dedupedRepos) = 2

\* the elements with the given disposition
WithStatus(st) == {r \in Repos : pushStatus[r] = st}

\* C34. Whenever the one-line summary is printed the counters agree with the
\* dispositions: elementsPushed is the number of elements succeeded,
\* pushesDenied the number denied, and no element is failed; in every
\* reachable state the number of elements succeeded or failed is at most
\* elementsPushed.
C34_CountersAgree ==
  /\ summary # "none" =>
       /\ elementsPushed = Cardinality(WithStatus("succeeded"))
       /\ pushesDenied = Cardinality(WithStatus("denied"))
       /\ WithStatus("failed") = {}
  /\ Cardinality(WithStatus("succeeded") \cup WithStatus("failed"))
       <= elementsPushed

\* the summary was printed after one element was pushed and another denied
C34_Witness ==
  /\ summary # "none"
  /\ Cardinality(WithStatus("succeeded")) = 1
  /\ Cardinality(WithStatus("denied")) = 1
  /\ elementsPushed = 1
  /\ pushesDenied = 1

\* C35. A network push is attempted for an element only if every commit its
\* passes attempted was created: makeCommit sets dirty before the commit
\* exists, but a rejected commit throws out of the pass and of cleanup, so
\* pushChanges is never reached for an element that is dirty without its
\* commits. An element at or past pushChanges that is dirty has a commit
\* and no rejected one; an element whose commit was rejected has left its
\* try-block without a governor call, a push or a disposition.
C35_PushOnlyCommitted ==
  \A r \in Repos :
    /\ (pc[r] \in AfterCleanup /\ dirty[r]) =>
         /\ commits[r] >= 1
         /\ thrown[r] # "commit"
    /\ pushedTo[r] # {} =>
         /\ dirty[r]
         /\ commits[r] >= 1
         /\ thrown[r] # "commit"
    /\ thrown[r] = "commit" =>
         /\ pc[r] = "threw"
         /\ gateCalls[r] = 0
         /\ pushedTo[r] = {}
         /\ pushStatus[r] = "unpushed"

\* an element was pushed with its commit, and the next one is dirty with its
\* only commit rejected
C35_Witness ==
  /\ pushedTo[1] # {}
  /\ commits[1] >= 1
  /\ thrown[2] = "commit"
  /\ dirty[2]
  /\ commits[2] = 0

\* the dirty elements that are not excluded
DirtyElements == {r \in Repos \ excluded : dirty[r]}

\* how many dirty elements come before r in directory order
DirtyBefore(r) == Cardinality({q \in DirtyElements : q < r})

\* C36. Elements are processed in ascending directory order, so on a run in
\* which nothing throws the elements granted a push slot are exactly the
\* first max_changes dirty, non-excluded elements in that order, and every
\* dirty element after them is denied.
C36_FirstComeFirstPushed ==
  (mainpc = "exited" /\ exitCode = 0) =>
    /\ \A r \in DirtyElements :
         /\ DirtyBefore(r) < max_changes => pushStatus[r] = "succeeded"
         /\ DirtyBefore(r) >= max_changes => pushStatus[r] = "denied"
    /\ Granted = {r \in DirtyElements : DirtyBefore(r) < max_changes}
    /\ \A r \in Repos \ DirtyElements : pushStatus[r] = "unpushed"

\* ceiling 1, nothing thrown: the first dirty element was pushed and the
\* dirty element after it, beyond an excluded one, was denied
C36_Witness ==
  /\ mainpc = "exited"
  /\ exitCode = 0
  /\ max_changes = 1
  /\ pushStatus[1] = "succeeded"
  /\ 2 \in excluded
  /\ dirty[3]
  /\ pushStatus[3] = "denied"

\* ---- main with one promise chain per element (Promise.all) -------------------
\* This main has no pass registry and no blacklist: cleanup awaits every
\* step in turn. The first two elements get a chain, the others are in
\* `excludes`.
AllInit ==
  /\ InitRegistry
  /\ InitRateLimit
  /\ InitTree
  /\ NoDiscovery
  /\ max_changes \in 0..MaxChangesBound
  /\ excluded = Repos \ {1, 2}
  /\ runsByDefault = [p \in Passes |-> TRUE]
  /\ blacklist = [p \in Passes |-> {}]
  /\ DefaultReviewOptions
  /\ InitRun

\* for (const element of elements): an excluded element gets no chain, every
\* other one gets Promise.resolve().then(checkoutNewBranch)...; then
\* promiseAllWithProgress(promises) is awaited
allStart ==
  /\ mainpc = "startup"
  /\ mainpc' = "all"
  /\ loaded' = TRUE
  /\ pc' = [r \in Repos |-> IF r \in excluded THEN "skipped" ELSE "checkout"]
  /\ UNCHANGED << libVars, cfgVars, idx, step, elemVars, govVars,
                  remoteBranchName, netVars, thrown, err, outVars, histVars >>

\* one callback of the chain of element r. A rejected chain rejects
\* Promise.all and runs main's handlers in the same turn of the event loop,
\* before the callback of any other chain.
allStep(r) ==
  /\ mainpc = "all"
  /\ \A q \in Repos : pc[q] # "threw"
  /\ \/ checkoutNewBranch(r)
     \/ checkoutNewBranchFails(r)
     \/ rateLimitZero(r)
     \/ cleanupCallsPass(r)
     \/ cleanupReturns(r)
     \/ passWritesNeedsReview(r, TRUE)
     \/ makeCommit(r)
     \/ makeCommitResolves(r)
     \/ makeCommitRejects(r)
     \/ passReturns(r)
     \/ passThrows(r)
     \/ pushChangesNotDirty(r)
     \/ pushChangesDenied(r)
     \/ pushChangesGranted(r)
     \/ pushBranch(r)
     \/ pushBranchRejects(r)
     \/ createPullRequestRateLimit(r)
     \/ createPullRequest(r)
     \/ createPullRequestRejects(r)
     \/ issuesEdit(r)
     \/ issuesEditRejects(r)
     \/ pushChangesSucceeds(r)

\* every chain resolved: .then(reportOnChangesMade), then the summary
allResolves ==
  /\ mainpc = "all"
  /\ \A r \in Repos \ excluded : pc[r] = "done"
  /\ report' = reportOnChangesMade
  /\ reportCalls' = reportCalls + 1
  /\ summary' = Summary
  /\ exitCode' = 0
  /\ mainpc' = "exited"
  /\ UNCHANGED << libVars, cfgVars, loaded, idx, err, pc, step, elemVars, govVars,
                  remoteBranchName, netVars, thrown, stderr, histVars >>

\* a chain rejected: Promise.all rejects with its error at once,
\* (e) => {reportOnChangesMade(); throw e;}, then console.error and
\* process.exit(1)
allRejects ==
  /\ mainpc = "all"
  /\ \E r \in Repos :
       /\ pc[r] = "threw"
       /\ err' = [kind |-> thrown[r], repo |-> r]
       /\ stderr' = [kind |-> thrown[r], repo |-> r]
  /\ report' = reportOnChangesMade
  /\ reportCalls' = reportCalls + 1
  /\ exitCode' = 1
  /\ mainpc' = "exited"
  /\ UNCHANGED << libVars, cfgVars, loaded, idx, pc, step, elemVars, govVars,
                  remoteBranchName, netVars, thrown, summary, histVars >>

AllNext ==
  \/ allStart
  \/ \E r \in Repos : allStep(r)
  \/ allResolves
  \/ allRejects

AllSpec == AllInit /\ [][AllNext]_vars

\* C37. A push slot, once granted, is never given back: when the push or the
\* pull request of the granted element fails, elementsPushed stays
\* incremented, so the slots left for the other elements are max_changes
\* minus the number of grants, not minus the number of successful pushes.
C37_SlotNotReturned ==
  /\ elementsPushed = Cardinality(Granted)
  /\ \A r \in Repos : pushStatus[r] = "failed" => r \in Granted
  /\ pushIsAllowedTest <=> Cardinality(Granted) < max_changes
  /\ \A r \in Repos :
       pushStatus[r] = "denied" => Cardinality(Granted \ {r}) >= max_changes

\* ceiling 1: the one slot went to an element whose push then failed, and
\* the other dirty element had been denied
C37_Witness ==
  /\ max_changes = 1
  /\ elementsPushed = 1
  /\ \E r, q \in Repos :
       /\ pushStatus[r] = "failed"
       /\ pushStatus[q] = "denied"
  /\ \A r \in Repos : pushStatus[r] # "succeeded"

\* the places of an element whose chain has settled or was never started
AtRest == {"new", "skipped", "done", "threw"}

\* C38. When the end-of-run report is produced no element's pass or push
\* pipeline is still in flight, so every disposition it prints is final for
\* the run; also when the report is triggered by the failure of another
\* element while the elements are processed concurrently.
C38_ReportAfterAll ==
  report.printed => \A r \in Repos : pc[r] \in AtRest

====
